---------------------------- MODULE Spec2Model ----------------------------
(***************************************************************************)
(* Model of the indicator engine of Moodle-Metrics                         *)
(* (src/src/api/indicators: group1_results.py, group2_design.py,           *)
(* group3_behavior.py).                                                    *)
(*                                                                         *)
(* Number representation.  Python floats are modelled by exact integers:   *)
(*   - grades and grade maxima (graderaw, grademax) are held in            *)
(*     thousandths of a grade point (95.0 is 95000, 0.001 is 1);           *)
(*   - weights (weightraw) are held in ten-thousandths (0.5 is 5000,       *)
(*     0.0001 is 1);                                                       *)
(*   - a normalized grade is the exact fraction n / d of grade points,     *)
(*     held as the record [n |-> n, d |-> d] with d > 0;                   *)
(*   - percentages that the code rounds to 2 decimals are held in          *)
(*     hundredths of a percent (80.0 is 8000).                             *)
(* Binary floating-point rounding of the intermediate quotients is not     *)
(* modelled: comparisons are decided on the exact values.                  *)
(*                                                                         *)
(* Python lists are 0-based, TLA+ sequences 1-based: column idx of the     *)
(* code is position idx + 1 here.                                          *)
(***************************************************************************)
EXTENDS Integers, Sequences, FiniteSets, TLC

\* Python None in a numeric field (graderaw, weightraw, grademax, a result).
None == 0 - 1000000
\* A value float() rejects with ValueError (a non-numeric string).
NonNumeric == 0 - 2000000
\* Python None in the weightformatted field (strings are sequences of
\* one-character strings, so this one-element sequence is no string).
NoneStr == <<"None">>

IsNumber(x) == x # None /\ x # NonNumeric

\* --- BUSINESS LOGIC CONFIGURATION (group1_results.py lines 5-15) ---
TARGET_SCALE == 20000
PASSING_GRADE == 9500
DENSITY_ACTIVE == 40
DENSITY_COMPLETE == 80
MIN_PARTICIPATION_RATE == 5
MIN_STUDENTS_REQUIRED == 5

(***************************************************************************)
(* Exact fractions.                                                        *)
(***************************************************************************)
RECURSIVE GCD(_, _)
GCD(a, b) == IF b = 0 THEN a ELSE GCD(b, a % b)

\* the fraction n / d in lowest terms (n >= 0, d > 0)
Frac(n, d) == LET g == GCD(n, d) IN [n |-> n \div g, d |-> d \div g]
\* a >= b, a < b and min for fractions with positive denominators
FracGE(a, b) == a.n * b.d >= b.n * a.d
FracEq(a, b) == a.n * b.d = b.n * a.d
FracMin(a, b) == IF FracGE(a, b) THEN b ELSE a
\* a grade held in thousandths, as a fraction of grade points
Points(h) == Frac(h, 1000)

\* x / d rounded to the nearest integer (d > 0, x >= 0), a tie to the even
\* one, as Python's round() does on an exactly representable tie
RoundDiv(x, d) ==
    LET q == x \div d
        r == x % d
    IN  IF 2 * r < d THEN q
        ELSE IF 2 * r > d THEN q + 1
        ELSE IF q % 2 = 0 THEN q ELSE q + 1

\* round(n / d * 100, 2) in hundredths of a percent
Round2Pct(n, d) == RoundDiv(n * 10000, d)

Max2(a, b) == IF a >= b THEN a ELSE b

\* sub in s, for strings held as sequences of characters
Contains(s, sub) ==
    \E k \in 0..(Len(s) - Len(sub)) :
        \A j \in 1..Len(sub) : s[k + j] = sub[j]

ZeroZeroZero == <<"0", ".", "0", "0">>

(***************************************************************************)
(* Input data (spec section 3).  A student is [gradeitems |-> <<item>>];   *)
(* a missing, null or empty gradeitems list is the empty sequence.  An     *)
(* item holds the keys the engine reads; a key the payload leaves out is   *)
(* given the default the code's item.get(key, default) supplies.           *)
(***************************************************************************)
Item(type, module, gmax, graw, wraw, wfmt) ==
    [itemtype |-> type, itemmodule |-> module, grademax |-> gmax,
     graderaw |-> graw, weightraw |-> wraw, weightformatted |-> wfmt,
     feedback |-> ""]

\* the same item carrying the grader's feedback text
WithFeedback(item, text) == [item EXCEPT !.feedback = text]

Student(items) == [gradeitems |-> items]

\* grades_data: a dict holding the usergrades list, or no usable payload
GradesData(students) == [kind |-> "dict", usergrades |-> students]

\* no payload at all (None)
NoGrades == [kind |-> "none", usergrades |-> <<>>]

\* `not student or not student.get('gradeitems')`
HasItems(student) == Len(student.gradeitems) > 0

(***************************************************************************)
(* STEP 0: scale detection and normalization strategy (lines 34-66).       *)
(***************************************************************************)
\* position of the first item of type course, 0 when there is none: the
\* inner loop of lines 41-54 acts on that item and breaks
FirstCourseIdx(items) ==
    IF \E k \in 1..Len(items) : items[k].itemtype = "course"
    THEN CHOOSE k \in 1..Len(items) :
            /\ items[k].itemtype = "course"
            /\ \A j \in 1..(k - 1) : items[j].itemtype # "course"
    ELSE 0

\* lines 37-54 from student k on; acc = [cfg, gmo, raised]
RECURSIVE ScaleScanFrom(_, _, _)
ScaleScanFrom(ug, k, acc) ==
    IF k > Len(ug) \/ acc.raised THEN acc
    ELSE LET items == ug[k].gradeitems
             c == FirstCourseIdx(items)
         IN  IF c = 0 THEN ScaleScanFrom(ug, k + 1, acc)
             ELSE LET item == items[c]
                      \* line 44: float(item.get('grademax', 0)), uncaught
                      bad == acc.cfg = 0 /\ ~IsNumber(item.grademax)
                      cfg == IF acc.cfg = 0 /\ ~bad THEN item.grademax
                             ELSE acc.cfg
                      \* lines 46-53: a non-numeric graderaw is passed over
                      gmo == IF IsNumber(item.graderaw)
                                /\ item.graderaw > acc.gmo
                             THEN item.graderaw ELSE acc.gmo
                  IN  IF bad
                      THEN [cfg |-> acc.cfg, gmo |-> acc.gmo, raised |-> TRUE]
                      ELSE ScaleScanFrom(ug, k + 1,
                               [cfg |-> cfg, gmo |-> gmo, raised |-> FALSE])

ScaleScan(ug) == ScaleScanFrom(ug, 1, [cfg |-> 0, gmo |-> 0, raised |-> FALSE])

AbsDiff(a, b) == IF a >= b THEN a - b ELSE b - a

\* line 64: abs(config_max_grade - 20.0) > 0.1 on doubles.  Of the grades
\* with three decimals only 19.9 and 20.1 lie exactly 0.1 from 20; their
\* doubles lie 0.10000000000000142 from 20.0, which is more than the double
\* 0.1, so that the test holds for them as for every grade farther away.
FarFromTarget(cfg) == AbsDiff(cfg, 20000) >= 100


\* mutant: no scale protection, every base above 25 is normalized
ScaleDecision_NoProtection(cfg, gmo) ==
    IF cfg > 1 /\ FarFromTarget(cfg)
    THEN [should_normalize |-> TRUE, normalize_divisor |-> cfg]
    ELSE [should_normalize |-> FALSE, normalize_divisor |-> 1000]

\* mutant: scale protection up to an observed grade of 50
ScaleDecision_Protect50(cfg, gmo) ==
    IF cfg > 25000
    THEN IF gmo > 50000
         THEN [should_normalize |-> TRUE, normalize_divisor |-> cfg]
         ELSE [should_normalize |-> FALSE, normalize_divisor |-> 1000]
    ELSE IF cfg > 1 /\ FarFromTarget(cfg)
         THEN [should_normalize |-> TRUE, normalize_divisor |-> cfg]
         ELSE [should_normalize |-> FALSE, normalize_divisor |-> 1000]

\* lines 56-66; a divisor of 1.0 is 1000 thousandths
ScaleDecision(cfg, gmo) ==
    IF cfg > 25000
    THEN IF gmo > 22000
         THEN [should_normalize |-> TRUE, normalize_divisor |-> cfg]
         ELSE [should_normalize |-> FALSE, normalize_divisor |-> 1000]
    ELSE IF cfg > 1 /\ FarFromTarget(cfg)
         THEN [should_normalize |-> TRUE, normalize_divisor |-> cfg]
         ELSE [should_normalize |-> FALSE, normalize_divisor |-> 1000]

\* (raw / normalize_divisor) * TARGET_SCALE, in grade points
Normalized(raw, divisor) == Frac(raw * TARGET_SCALE, divisor * 1000)

(***************************************************************************)
(* STEP 1: evaluable items whitelisting (lines 71-132).                    *)
(***************************************************************************)
\* lines 71-74
RECURSIVE MaxColumnsFrom(_, _)
MaxColumnsFrom(ug, k) ==
    IF k > Len(ug) THEN 0
    ELSE Max2(Len(ug[k].gradeitems), MaxColumnsFrom(ug, k + 1))

MaxColumns(ug) == MaxColumnsFrom(ug, 1)

NoMeta == [set |-> FALSE, type |-> "", gmax |-> 0, wraw |-> None,
           wfmt |-> <<>>]

\* lines 91-96 raise ValueError or TypeError, which line 99 catches
MetaRaises(item) ==
    \/ ~IsNumber(item.grademax)
    \/ item.weightraw = NonNumeric

MetaOf(item) ==
    [set |-> TRUE, type |-> item.itemtype, gmax |-> item.grademax,
     wraw |-> item.weightraw, wfmt |-> item.weightformatted]

\* lines 88-100 for one student, from item idx on; acc = [meta, counts]
RECURSIVE MetaScanItems(_, _, _)
MetaScanItems(items, idx, acc) ==
    IF idx > Len(items) THEN acc
    ELSE IF ~acc.meta[idx].set /\ MetaRaises(items[idx])
         THEN MetaScanItems(items, idx + 1, acc)
         ELSE LET meta == IF acc.meta[idx].set THEN acc.meta
                          ELSE [acc.meta EXCEPT ![idx] = MetaOf(items[idx])]
                  counts == IF items[idx].graderaw # None
                            THEN [acc.counts EXCEPT ![idx] = @ + 1]
                            ELSE acc.counts
              IN  MetaScanItems(items, idx + 1,
                                [meta |-> meta, counts |-> counts])

\* lines 83-100 from student k on; acc = [meta, counts, total].  The test of
\* acc.total changes nothing (it never exceeds the students seen); reading
\* the accumulator at every step keeps it evaluated as the loop goes.
RECURSIVE MetaScanStudents(_, _, _)
MetaScanStudents(ug, k, acc) ==
    IF k > Len(ug) \/ acc.total >= k THEN acc
    ELSE IF ~HasItems(ug[k]) THEN MetaScanStudents(ug, k + 1, acc)
         ELSE LET r == MetaScanItems(ug[k].gradeitems, 1,
                           [meta |-> acc.meta, counts |-> acc.counts])
              IN  MetaScanStudents(ug, k + 1,
                      [meta |-> r.meta, counts |-> r.counts,
                       total |-> acc.total + 1])

MetaScan(ug) ==
    LET n == MaxColumns(ug)
    IN  MetaScanStudents(ug, 1, [meta |-> [i \in 1..n |-> NoMeta],
                                 counts |-> [i \in 1..n |-> 0],
                                 total |-> 0])

IsAggregate(meta) == meta.type \in {"course", "category"}

\* truthiness of meta['wfmt']: neither None nor the empty string
Truthy(wfmt) == wfmt # NoneStr /\ wfmt # <<>>

\* line 108
ExplicitWeight(meta) ==
    \/ (meta.wraw # None /\ meta.wraw > 1)
    \/ (Truthy(meta.wfmt) /\ ~Contains(meta.wfmt, ZeroZeroZero))

\* lines 103-110
HasExplicitWeights(meta) ==
    \E idx \in 1..Len(meta) :
        meta[idx].set /\ ~IsAggregate(meta[idx]) /\ ExplicitWeight(meta[idx])


\* mutant: line 115 without the grademax test
Candidate_AnyGrademax(m) == m.set /\ ~IsAggregate(m)

\* line 115: the columns that reach the weight or participation filter
Candidate(m) == m.set /\ ~IsAggregate(m) /\ ~(m.gmax <= 10)

\* line 122 with has_explicit_weights: '0.00' in None raises TypeError once
\* the two tests before it are false
WeightTestRaises(m) == m.wraw # None /\ ~(m.wraw <= 1) /\ m.wfmt = NoneStr

IsInvalidWeight(m) ==
    \/ m.wraw = None
    \/ m.wraw <= 1
    \/ Contains(m.wfmt, ZeroZeroZero)


\* mutant: a participation rate of exactly 0.05 is too low
LowParticipation_Strict(count, total) ==
    IF total > 0 THEN count * 100 <= MIN_PARTICIPATION_RATE * total
    ELSE TRUE

\* line 118 and 126: participation_pct < MIN_PARTICIPATION_RATE
LowParticipation(count, total) ==
    IF total > 0 THEN count * 100 < MIN_PARTICIPATION_RATE * total
    ELSE TRUE

\* lines 121-129 for one candidate column
PassesFilter(m, count, total, explicit) ==
    IF explicit THEN ~IsInvalidWeight(m)
    ELSE ~LowParticipation(count, total)

\* lines 112-129 from column idx on
RECURSIVE WhitelistFrom(_, _, _, _, _)
WhitelistFrom(meta, counts, total, explicit, idx) ==
    IF idx > Len(meta) THEN <<>>
    ELSE LET rest == WhitelistFrom(meta, counts, total, explicit, idx + 1)
         IN  IF Candidate(meta[idx])
                /\ PassesFilter(meta[idx], counts[idx], total, explicit)
             THEN <<idx>> \o rest
             ELSE rest

Whitelist(meta, counts, total, explicit) ==
    WhitelistFrom(meta, counts, total, explicit, 1)

\* the loop of lines 113-129 raises at the first column whose weight test does
WhitelistRaises(meta, explicit) ==
    /\ explicit
    /\ \E idx \in 1..Len(meta) :
           Candidate(meta[idx]) /\ WeightTestRaises(meta[idx])

(***************************************************************************)
(* STEP 1.5: success-based denominator (lines 137-165).                    *)
(***************************************************************************)
\* lines 145-150 and 204-208: whitelisted columns the student has a grade in;
\* a column past the end of the student's list counts as not completed
CompletedTasks(items, wl) ==
    Cardinality({j \in 1..Len(wl) :
                    wl[j] <= Len(items) /\ items[wl[j]].graderaw # None})

\* lines 153-156 and 195-199: position of the first course item that has a
\* grade, 0 when there is none
FinalIdx(items) ==
    IF \E k \in 1..Len(items) :
           items[k].itemtype = "course" /\ items[k].graderaw # None
    THEN CHOOSE k \in 1..Len(items) :
            /\ items[k].itemtype = "course" /\ items[k].graderaw # None
            /\ \A j \in 1..(k - 1) :
                   ~(items[j].itemtype = "course" /\ items[j].graderaw # None)
    ELSE 0

\* float(item['graderaw']) of lines 155 and 197 raises ValueError, uncaught
FinalRaises(items) ==
    FinalIdx(items) # 0 /\ items[FinalIdx(items)].graderaw = NonNumeric

\* raw_final / student_final_raw: 0.0 without a graded course item
RawFinal(items) ==
    IF FinalIdx(items) = 0 THEN 0 ELSE items[FinalIdx(items)].graderaw

\* line 158
NormFinal(raw, norm, divisor) ==
    IF norm THEN Normalized(raw, divisor) ELSE Points(raw)

\* line 160: norm_final >= PASSING_GRADE
Passes(g) == FracGE(g, Points(PASSING_GRADE))

\* lines 142-163 from student k on; acc = [found, most, raised]
RECURSIVE PassersFrom(_, _, _, _, _, _)
PassersFrom(ug, wl, norm, divisor, k, acc) ==
    IF k > Len(ug) \/ acc.raised THEN acc
    ELSE IF ~HasItems(ug[k])
         THEN PassersFrom(ug, wl, norm, divisor, k + 1, acc)
         ELSE LET items == ug[k].gradeitems
                  completed_tasks == CompletedTasks(items, wl)
              IN  IF FinalRaises(items)
                  THEN [acc EXCEPT !.raised = TRUE]
                  ELSE IF Passes(NormFinal(RawFinal(items), norm, divisor))
                       THEN PassersFrom(ug, wl, norm, divisor, k + 1,
                                [found |-> TRUE,
                                 most |-> Max2(acc.most, completed_tasks),
                                 raised |-> FALSE])
                       ELSE PassersFrom(ug, wl, norm, divisor, k + 1, acc)


\* mutant: line 165 without the test max_tasks_by_passing_student > 0
ResolveDenominator_NoPositiveTest(found, most, wl) ==
    IF found THEN most ELSE Max2(Len(wl), 1)


\* mutant: the denominator is the number of whitelisted items
ResolveDenominator_FixedCount(found, most, wl) == Max2(Len(wl), 1)

\* line 165
ResolveDenominator(found, most, wl) ==
    IF found /\ most > 0 THEN most ELSE Max2(Len(wl), 1)

\* lines 137-165: [den, raised]; 1 when the course is a digital desert
Denominator(ug, wl, norm, divisor) ==
    IF Len(wl) = 0 THEN [den |-> 1, raised |-> FALSE]
    ELSE LET p == PassersFrom(ug, wl, norm, divisor, 1,
                      [found |-> FALSE, most |-> 0, raised |-> FALSE])
         IN  [den |-> ResolveDenominator(p.found, p.most, wl),
              raised |-> p.raised]

(***************************************************************************)
(* STEP 2: aggregation of student KPIs (lines 171-245).                    *)
(***************************************************************************)

\* mutant: eligibility by the final grade alone
IsParticipant_GradeOnly(has_final, raw_final, completed) ==
    has_final /\ raw_final >= 100

\* mutant: every student with grade items is a participant
IsParticipant_WithItems(has_final, raw_final, completed) == TRUE

\* line 212
IsParticipant(has_final, raw_final, completed) ==
    (has_final /\ raw_final >= 100) \/ completed > 0

\* mutant: the grade without the cap of line 219
NormGrade_NoCap(has_final, raw_final, norm, divisor) ==
    IF has_final /\ norm THEN Normalized(raw_final, divisor)
    ELSE Points(raw_final)

\* lines 218-219
NormGrade(has_final, raw_final, norm, divisor) ==
    FracMin(IF has_final /\ norm THEN Normalized(raw_final, divisor)
            ELSE Points(raw_final),
            Points(TARGET_SCALE))

\* lines 231-235: density = completed / den against a threshold in percent
DensityGE(completed, den, pct) == completed * 100 >= pct * den

\* mutant: activity by density alone
IsActive_DensityOnly(desert, completed, den, g) ==
    IF desert THEN FracGE(g, Frac(1, 10))
    ELSE DensityGE(completed, den, DENSITY_ACTIVE)

\* lines 228-233
IsActive(desert, completed, den, g) ==
    IF desert THEN FracGE(g, Frac(1, 10))
    ELSE DensityGE(completed, den, DENSITY_ACTIVE) \/ Passes(g)

\* mutant: finisher from the activity threshold on
IsFinisher_FromActive(desert, completed, den) ==
    ~desert /\ DensityGE(completed, den, DENSITY_ACTIVE)

\* mutant: a density above 1 is not taken for a finisher's
IsFinisher_AtMostFull(desert, completed, den) ==
    ~desert /\ DensityGE(completed, den, DENSITY_COMPLETE) /\ completed <= den

\* lines 226, 234-235
IsFinisher(desert, completed, den) ==
    ~desert /\ DensityGE(completed, den, DENSITY_COMPLETE)

\* what one iteration of the loop of lines 186-245 computes for a student
\* that has grade items
Classify(items, wl, desert, den, norm, divisor) ==
    LET has_final == FinalIdx(items) # 0
        raw_final == RawFinal(items)
        completed == IF desert THEN 0 ELSE CompletedTasks(items, wl)
        participant == IsParticipant(has_final, raw_final, completed)
        g == NormGrade(has_final, raw_final, norm, divisor)
        active == participant /\ IsActive(desert, completed, den, g)
    IN  [has_items |-> TRUE, has_final |-> has_final, raw_final |-> raw_final,
         completed |-> completed, is_participant |-> participant,
         norm_grade |-> g,
         passing |-> participant /\ Passes(g),
         is_active |-> active,
         is_finisher |-> participant /\ IsFinisher(desert, completed, den),
         qualified |-> active /\ FracGE(g, Frac(1, 2))]

Skipped ==
    [has_items |-> FALSE, has_final |-> FALSE, raw_final |-> 0,
     completed |-> 0, is_participant |-> FALSE, norm_grade |-> Points(0),
     passing |-> FALSE, is_active |-> FALSE, is_finisher |-> FALSE,
     qualified |-> FALSE]

ZeroCounters ==
    [total_checks_count |-> 0, total_potential_capacity |-> 0,
     passing_students_count |-> 0, active_students_count |-> 0,
     finisher_students_count |-> 0, qualified_grades_for_avg |-> <<>>,
     processed_count |-> 0, kpis |-> <<>>, raised |-> FALSE]

Bump(flag) == IF flag THEN 1 ELSE 0

\* the loop of lines 186-245 from student k on
RECURSIVE AggregateFrom(_, _, _, _, _, _, _, _)
AggregateFrom(ug, wl, desert, den, norm, divisor, k, acc) ==
    IF k > Len(ug) \/ acc.raised THEN acc
    ELSE IF ~HasItems(ug[k])
         THEN AggregateFrom(ug, wl, desert, den, norm, divisor, k + 1,
                  [acc EXCEPT !.kpis = Append(@, Skipped)])
         ELSE LET items == ug[k].gradeitems
                  c == Classify(items, wl, desert, den, norm, divisor)
              IN  \* line 197 raises ValueError; line 231 divides by den
                  IF FinalRaises(items)
                     \/ (c.is_participant /\ ~desert /\ den = 0)
                  THEN [acc EXCEPT !.raised = TRUE]
                  ELSE AggregateFrom(ug, wl, desert, den, norm, divisor, k + 1,
                     [total_checks_count |->
                          acc.total_checks_count + c.completed,
                      total_potential_capacity |->
                          acc.total_potential_capacity
                          + (IF c.is_participant /\ ~desert THEN den ELSE 0),
                      passing_students_count |->
                          acc.passing_students_count + Bump(c.passing),
                      active_students_count |->
                          acc.active_students_count + Bump(c.is_active),
                      finisher_students_count |->
                          acc.finisher_students_count + Bump(c.is_finisher),
                      qualified_grades_for_avg |->
                          IF c.qualified
                          THEN Append(acc.qualified_grades_for_avg,
                                      c.norm_grade)
                          ELSE acc.qualified_grades_for_avg,
                      processed_count |->
                          acc.processed_count + Bump(c.is_participant),
                      kpis |-> Append(acc.kpis, c),
                      raised |-> FALSE])

Aggregate(ug, wl, desert, den, norm, divisor) ==
    AggregateFrom(ug, wl, desert, den, norm, divisor, 1, ZeroCounters)

(***************************************************************************)
(* STEP 3: final KPI compilation (lines 247-309).                          *)
(***************************************************************************)

\* mutant: compliance without the cap of line 267
Compliance_NoCap(checks, capacity) ==
    IF capacity > 0 THEN Round2Pct(checks, capacity) ELSE 0

\* lines 265 and 267: min(round(checks / capacity * 100, 2), 100.0)
Compliance(checks, capacity) ==
    LET c == IF capacity > 0 THEN Round2Pct(checks, capacity) ELSE 0
    IN  IF c <= 10000 THEN c ELSE 10000

\* sum(qualified_grades_for_avg) as one fraction
RECURSIVE FracSum(_)
FracSum(gs) ==
    IF Len(gs) = 0 THEN Frac(0, 1)
    ELSE LET t == FracSum(Tail(gs))
             g == GCD(gs[1].d, t.d)
         IN  Frac(gs[1].n * (t.d \div g) + t.n * (gs[1].d \div g),
                  gs[1].d * (t.d \div g))

\* round(x, 2) of a fraction of grade points, in hundredths
Round2(f) == RoundDiv(f.n * 100, f.d)

NoResult ==
    [n_estudiantes_procesados |-> 0, n_estudiantes_totales |-> 0,
     ind_1_1_cumplimiento |-> None, ind_1_2_aprobacion |-> 0,
     ind_1_3_nota_promedio |-> 0, ind_1_4_participacion |-> 0,
     ind_1_5_finalizacion |-> None,
     ind_1_1_num |-> 0, ind_1_1_den |-> 0, ind_1_2_num |-> 0,
     ind_1_2_den |-> 0, ind_1_3_num |-> 0, ind_1_3_den |-> 0,
     ind_1_4_num |-> 0, ind_1_4_den |-> 0, ind_1_5_num |-> 0,
     ind_1_5_den |-> 0]

\* mutant: the activity rate taken over the participants, its emitted
\* denominator left as the enrolment
Compile_ActivityOverProcessed(a, desert, total) ==
    LET grade_sum == FracSum(a.qualified_grades_for_avg)
        grade_count == Len(a.qualified_grades_for_avg)
    IN  [n_estudiantes_procesados |-> a.processed_count,
         n_estudiantes_totales |-> total,
         ind_1_1_cumplimiento |->
             IF desert THEN None
             ELSE Compliance(a.total_checks_count,
                             a.total_potential_capacity),
         ind_1_2_aprobacion |->
             Round2Pct(a.passing_students_count, a.processed_count),
         ind_1_3_nota_promedio |->
             IF grade_count > 0
             THEN Round2(Frac(grade_sum.n, grade_sum.d * grade_count))
             ELSE 0,
         ind_1_4_participacion |->
             Round2Pct(a.active_students_count, a.processed_count),
         ind_1_5_finalizacion |->
             IF desert THEN None
             ELSE Round2Pct(a.finisher_students_count, a.processed_count),
         ind_1_1_num |-> a.total_checks_count,
         ind_1_1_den |-> IF desert THEN 0 ELSE a.total_potential_capacity,
         ind_1_2_num |-> a.passing_students_count,
         ind_1_2_den |-> a.processed_count,
         ind_1_3_num |-> Round2(grade_sum),
         ind_1_3_den |-> grade_count,
         ind_1_4_num |-> a.active_students_count,
         ind_1_4_den |-> total,
         ind_1_5_num |-> a.finisher_students_count,
         ind_1_5_den |-> a.processed_count]

\* lines 254-309.  The median and the standard deviation of the grades
\* (ind_1_3_nota_mediana, ind_1_3_nota_desviacion) are left out: they are
\* outputs only, and a square root has no exact value here.
Compile(a, desert, total) ==
    LET grade_sum == FracSum(a.qualified_grades_for_avg)
        grade_count == Len(a.qualified_grades_for_avg)
    IN  [n_estudiantes_procesados |-> a.processed_count,
         n_estudiantes_totales |-> total,
         ind_1_1_cumplimiento |->
             IF desert THEN None
             ELSE Compliance(a.total_checks_count,
                             a.total_potential_capacity),
         ind_1_2_aprobacion |->
             Round2Pct(a.passing_students_count, a.processed_count),
         ind_1_3_nota_promedio |->
             IF grade_count > 0
             THEN Round2(Frac(grade_sum.n, grade_sum.d * grade_count))
             ELSE 0,
         ind_1_4_participacion |->
             IF total > 0 THEN Round2Pct(a.active_students_count, total)
             ELSE 0,
         ind_1_5_finalizacion |->
             IF desert THEN None
             ELSE Round2Pct(a.finisher_students_count, a.processed_count),
         ind_1_1_num |-> a.total_checks_count,
         ind_1_1_den |-> IF desert THEN 0 ELSE a.total_potential_capacity,
         ind_1_2_num |-> a.passing_students_count,
         ind_1_2_den |-> a.processed_count,
         ind_1_3_num |-> Round2(grade_sum),
         ind_1_3_den |-> grade_count,
         ind_1_4_num |-> a.active_students_count,
         ind_1_4_den |-> total,
         ind_1_5_num |-> a.finisher_students_count,
         ind_1_5_den |-> a.processed_count]

VARIABLES
    grades_data,            \* the argument of calculate_group1_metrics
    pc,                     \* position in calculate_group1_metrics
    config_max_grade, global_max_observed,
    should_normalize, normalize_divisor,
    max_columns, participation_counts, items_metadata, total_valid_students,
    has_explicit_weights, whitelisted_indices, is_digital_desert,
    final_denominator,
    student_kpis,           \* per student, what the STEP 2 loop computed
    total_checks_count, total_potential_capacity,
    passing_students_count, active_students_count, finisher_students_count,
    qualified_grades_for_avg, processed_count,
    outcome,                \* "running" | "none" | "result" | "raised"
    result,                 \* the returned dictionary when outcome = "result"
    course_contents,        \* the argument of calculate_design_metrics
    valid_evaluable_modules,
    design_outcome,         \* "pending" | "empty" | "result" | "raised"
    design_result,
    behavior_whitelisted_indices,   \* whitelisted_indices of group 3
    behavior_outcome,       \* "pending" | "none" | "result" | "raised"
    behavior_result,
    calls,                  \* the caller: invocations made so far
    called_with,            \* the caller: <<contents, gradebook>> passed
    returned,               \* the caller: what earlier invocations returned
    courses_queue,          \* run_pipeline: the ids of the queued courses
    futures,                \* run_pipeline: per queued course, its task
    run_pc,                 \* position in run_pipeline
    yielded,                \* the courses as_completed has yielded, in order
    log,                    \* the lines passed to log_callback, in order
    progress,               \* the calls of progress_callback, in order
    stop_event,             \* the stop signal
    db_script,              \* what the database does in each attempt
    db_call                 \* save_analytics_data_to_db: how the call went

vars == <<grades_data, pc, config_max_grade, global_max_observed,
          should_normalize, normalize_divisor, max_columns,
          participation_counts, items_metadata, total_valid_students,
          has_explicit_weights, whitelisted_indices, is_digital_desert,
          final_denominator, student_kpis, total_checks_count,
          total_potential_capacity, passing_students_count,
          active_students_count, finisher_students_count,
          qualified_grades_for_avg, processed_count, outcome, result,
          course_contents, valid_evaluable_modules, design_outcome,
          design_result, behavior_whitelisted_indices, behavior_outcome,
          behavior_result, calls, called_with, returned, courses_queue,
          futures, run_pc, yielded, log, progress, stop_event, db_script,
          db_call>>


\* calculate_group1_metrics as a function of its argument: the outcome, the
\* returned dictionary and what the loop of STEP 2 computed per student
Engine(gd) ==
    LET ug == gd.usergrades
        sc == ScaleScan(ug)
        d == ScaleDecision(sc.cfg, sc.gmo)
        ms == MetaScan(ug)
        explicit == HasExplicitWeights(ms.meta)
        wl == Whitelist(ms.meta, ms.counts, ms.total, explicit)
        den == Denominator(ug, wl, d.should_normalize, d.normalize_divisor)
        a == Aggregate(ug, wl, Len(wl) = 0, den.den, d.should_normalize,
                       d.normalize_divisor)
        none == [outcome |-> "none", result |-> NoResult, kpis |-> <<>>]
        raised == [outcome |-> "raised", result |-> NoResult, kpis |-> <<>>]
    IN  IF gd.kind # "dict" \/ Len(ug) < MIN_STUDENTS_REQUIRED THEN none
        ELSE IF sc.raised THEN raised
        ELSE IF MaxColumns(ug) = 0 THEN none
        ELSE IF WhitelistRaises(ms.meta, explicit) \/ den.raised \/ a.raised
             THEN raised
        ELSE IF a.processed_count < MIN_STUDENTS_REQUIRED
             THEN [outcome |-> "none", result |-> NoResult, kpis |-> a.kpis]
        ELSE [outcome |-> "result",
              result |-> Compile(a, Len(wl) = 0, ms.total),
              kpis |-> a.kpis]

(***************************************************************************)
(* calculate_group1_metrics as a state machine: one action per step of     *)
(* the function, each ending in the next step or in a return.              *)
(***************************************************************************)
Locals0 ==
    /\ config_max_grade = 0 /\ global_max_observed = 0
    /\ should_normalize = FALSE /\ normalize_divisor = 1000
    /\ max_columns = 0 /\ participation_counts = <<>>
    /\ items_metadata = <<>> /\ total_valid_students = 0
    /\ has_explicit_weights = FALSE /\ whitelisted_indices = <<>>
    /\ is_digital_desert = FALSE /\ final_denominator = 1
    /\ student_kpis = <<>>
    /\ total_checks_count = 0 /\ total_potential_capacity = 0
    /\ passing_students_count = 0 /\ active_students_count = 0
    /\ finisher_students_count = 0 /\ qualified_grades_for_avg = <<>>
    /\ processed_count = 0
    /\ outcome = "running" /\ result = NoResult

\* course contents: a list of sections, or no usable payload
CourseContents(sections) == [kind |-> "list", sections |-> sections]
NoContents == [kind |-> "none", sections |-> <<>>]

NoDesignResult ==
    [ind_2_1_metod_activa |-> None, ind_2_2_ratio_eval |-> None,
     ind_2_1_num |-> None, ind_2_1_den |-> None,
     ind_2_2_num |-> None, ind_2_2_den |-> None]

NoBehaviorResult ==
    [ind_3_1_excelencia |-> None, ind_3_2_feedback |-> None,
     ind_3_1_num |-> None, ind_3_1_den |-> None,
     ind_3_2_num |-> None, ind_3_2_den |-> None]

\* calculate_design_metrics and calculate_group3_metrics_from_grades not
\* called yet
Pending ==
    /\ valid_evaluable_modules = {}
    /\ design_outcome = "pending" /\ design_result = NoDesignResult
    /\ behavior_whitelisted_indices = <<>>
    /\ behavior_outcome = "pending" /\ behavior_result = NoBehaviorResult

pipelineVars == <<courses_queue, futures, run_pc, yielded, log, progress,
                  stop_event>>
dbVars == <<db_script, db_call>>

NoCall == [outcome |-> "none", committed |-> FALSE, trace |-> <<>>]

\* no pipeline is running
PipelineIdle ==
    /\ courses_queue = <<>> /\ futures = <<>> /\ run_pc = "idle"
    /\ yielded = <<>> /\ log = <<>> /\ progress = <<>>
    /\ stop_event = FALSE

\* no persistence call is made
DbIdle == db_script = <<>> /\ db_call = NoCall

\* the state at the call of the compute functions on the course contents cc
\* and the gradebook gd
EngineCalled(cc, gd) ==
    /\ grades_data = gd /\ course_contents = cc
    /\ pc = "validate" /\ Locals0 /\ Pending
    /\ calls = 1 /\ called_with = <<cc, gd>> /\ returned = {}

CourseCalled(cc, gd) == EngineCalled(cc, gd) /\ PipelineIdle /\ DbIdle

\* the state at the call of calculate_group1_metrics(gd)
Called(gd) == CourseCalled(NoContents, gd)

Return(o, r) == pc' = "done" /\ outcome' = o /\ result' = r

scaleVars == <<config_max_grade, global_max_observed, should_normalize,
               normalize_divisor>>
whitelistVars == <<max_columns, participation_counts, items_metadata,
                   total_valid_students, has_explicit_weights,
                   whitelisted_indices, is_digital_desert>>
designVars == <<course_contents, valid_evaluable_modules, design_outcome,
                design_result>>
behaviorVars == <<behavior_whitelisted_indices, behavior_outcome,
                  behavior_result>>
callerVars == <<calls, called_with, returned>>
counterVars == <<student_kpis, total_checks_count, total_potential_capacity,
                 passing_students_count, active_students_count,
                 finisher_students_count, qualified_grades_for_avg,
                 processed_count>>

\* lines 24-29
ValidateInput ==
    /\ pc = "validate"
    /\ IF grades_data.kind # "dict"
          \/ Len(grades_data.usergrades) < MIN_STUDENTS_REQUIRED
       THEN Return("none", NoResult)
       ELSE pc' = "step0" /\ UNCHANGED <<outcome, result>>
    /\ UNCHANGED <<designVars, behaviorVars, callerVars, pipelineVars,
                   dbVars>>
    /\ UNCHANGED <<grades_data, scaleVars, whitelistVars, final_denominator,
                   counterVars>>

\* lines 34-66
Step0 ==
    /\ pc = "step0"
    /\ \E scan \in {ScaleScan(grades_data.usergrades)} :
       \E d \in {ScaleDecision(scan.cfg, scan.gmo)} :
           IF scan.raised
           THEN /\ Return("raised", NoResult)
                /\ UNCHANGED scaleVars
           ELSE /\ config_max_grade' = scan.cfg
                /\ global_max_observed' = scan.gmo
                /\ should_normalize' = d.should_normalize
                /\ normalize_divisor' = d.normalize_divisor
                /\ pc' = "step1"
                /\ UNCHANGED <<outcome, result>>
    /\ UNCHANGED <<designVars, behaviorVars, callerVars, pipelineVars,
                   dbVars>>
    /\ UNCHANGED <<grades_data, whitelistVars, final_denominator, counterVars>>

\* lines 71-132
Step1 ==
    /\ pc = "step1"
    /\ \E ug \in {grades_data.usergrades} :
       \E scan \in {MetaScan(ug)} :
       \E explicit \in {HasExplicitWeights(scan.meta)} :
       \E wl \in {Whitelist(scan.meta, scan.counts, scan.total, explicit)} :
           IF MaxColumns(ug) = 0
           THEN /\ Return("none", NoResult)
                /\ UNCHANGED whitelistVars
           ELSE /\ max_columns' = MaxColumns(ug)
                /\ participation_counts' = scan.counts
                /\ items_metadata' = scan.meta
                /\ total_valid_students' = scan.total
                /\ has_explicit_weights' = explicit
                /\ IF WhitelistRaises(scan.meta, explicit)
                   THEN /\ Return("raised", NoResult)
                        /\ UNCHANGED <<whitelisted_indices, is_digital_desert>>
                   ELSE /\ whitelisted_indices' = wl
                        /\ is_digital_desert' = (Len(wl) = 0)
                        /\ pc' = "step15"
                        /\ UNCHANGED <<outcome, result>>
    /\ UNCHANGED <<designVars, behaviorVars, callerVars, pipelineVars,
                   dbVars>>
    /\ UNCHANGED <<grades_data, scaleVars, final_denominator, counterVars>>

\* lines 137-165
Step15 ==
    /\ pc = "step15"
    /\ \E r \in {Denominator(grades_data.usergrades, whitelisted_indices,
                             should_normalize, normalize_divisor)} :
           IF r.raised
           THEN Return("raised", NoResult) /\ UNCHANGED final_denominator
           ELSE /\ final_denominator' = r.den
                /\ pc' = "step2"
                /\ UNCHANGED <<outcome, result>>
    /\ UNCHANGED <<designVars, behaviorVars, callerVars, pipelineVars,
                   dbVars>>
    /\ UNCHANGED <<grades_data, scaleVars, whitelistVars, counterVars>>

\* lines 171-245
Step2 ==
    /\ pc = "step2"
    /\ \E a \in {Aggregate(grades_data.usergrades, whitelisted_indices,
                           is_digital_desert, final_denominator,
                           should_normalize, normalize_divisor)} :
           IF a.raised
           THEN Return("raised", NoResult) /\ UNCHANGED counterVars
           ELSE /\ student_kpis' = a.kpis
                /\ total_checks_count' = a.total_checks_count
                /\ total_potential_capacity' = a.total_potential_capacity
                /\ passing_students_count' = a.passing_students_count
                /\ active_students_count' = a.active_students_count
                /\ finisher_students_count' = a.finisher_students_count
                /\ qualified_grades_for_avg' = a.qualified_grades_for_avg
                /\ processed_count' = a.processed_count
                /\ pc' = "step3"
                /\ UNCHANGED <<outcome, result>>
    /\ UNCHANGED <<designVars, behaviorVars, callerVars, pipelineVars,
                   dbVars>>
    /\ UNCHANGED <<grades_data, scaleVars, whitelistVars, final_denominator>>


\* mutant: the final gate lets a course of 4 participants through
BelowMinimum_Gate4(n) == n < MIN_STUDENTS_REQUIRED - 1

\* line 247: processed_count < MIN_STUDENTS_REQUIRED
BelowMinimum(n) == n < MIN_STUDENTS_REQUIRED

\* lines 247-309
Step3 ==
    /\ pc = "step3"
    /\ IF BelowMinimum(processed_count)
       THEN Return("none", NoResult)
       ELSE Return("result",
                Compile([total_checks_count |-> total_checks_count,
                         total_potential_capacity |-> total_potential_capacity,
                         passing_students_count |-> passing_students_count,
                         active_students_count |-> active_students_count,
                         finisher_students_count |-> finisher_students_count,
                         qualified_grades_for_avg |-> qualified_grades_for_avg,
                         processed_count |-> processed_count],
                        is_digital_desert, total_valid_students))
    /\ UNCHANGED <<designVars, behaviorVars, callerVars, pipelineVars,
                   dbVars>>
    /\ UNCHANGED <<grades_data, scaleVars, whitelistVars, final_denominator,
                   counterVars>>

Next == ValidateInput \/ Step0 \/ Step1 \/ Step15 \/ Step2 \/ Step3

(***************************************************************************)
(* Gradebooks the engine is run on.  A gradebook is built from a column    *)
(* layout (the items every student's list holds, in order) and one profile *)
(* per student: how many of the columns the student's list holds, the      *)
(* course total as a percentage of the course grademax (None: not graded), *)
(* and the activity columns the student has a grade in.  The engine reads  *)
(* students independently of their order when they share a layout, so      *)
(* the rosters are enumerated up to reordering (profiles in non-decreasing *)
(* order).                                                                 *)
(***************************************************************************)
Col(type, module, gmax, wraw, wfmt) ==
    [type |-> type, module |-> module, gmax |-> gmax, wraw |-> wraw,
     wfmt |-> wfmt]

\* final is a percentage of the course grademax
Profile(len, final, graded) ==
    [len |-> len, final |-> final, graded |-> graded, absolute |-> FALSE]

\* final is the raw course grade itself, in thousandths
RawProfile(len, final, graded) ==
    [len |-> len, final |-> final, graded |-> graded, absolute |-> TRUE]

Min2(a, b) == IF a <= b THEN a ELSE b

\* the grade a profile gives in column k: the course total for the course
\* item, 7 points for an activity the student was graded in
GradeIn(cols, k, p) ==
    IF cols[k].type = "course"
    THEN IF p.final = None THEN None
         ELSE IF p.absolute THEN p.final
         ELSE (cols[k].gmax * p.final) \div 100
    ELSE IF k \in p.graded THEN 7000 ELSE None

MkStudent(cols, p) ==
    Student([k \in 1..Min2(p.len, Len(cols)) |->
                Item(cols[k].type, cols[k].module, cols[k].gmax,
                     GradeIn(cols, k, p), cols[k].wraw, cols[k].wfmt)])

MkGradebook(cols, profiles, roster) ==
    GradesData([i \in 1..Len(roster) |-> MkStudent(cols, profiles[roster[i]])])

\* the non-decreasing sequences of length n over lo..hi
RECURSIVE NonDecreasing(_, _, _)
NonDecreasing(n, lo, hi) ==
    IF n = 0 THEN {<<>>}
    ELSE UNION {{<<t>> \o r : r \in NonDecreasing(n - 1, t, hi)} : t \in lo..hi}

Rosters(lo, hi, nprofiles) ==
    UNION {NonDecreasing(n, 1, nprofiles) : n \in lo..hi}

\* the largest roster of the population family
MaxStudents == 6

Pct50 == <<"5", "0", ".", "0", "0", " ", "%">>
Pct33 == <<"3", "3", ".", "3", "3", " ", "%">>
Pct0 == <<"0", ".", "0", "0", " ", "%">>

\* layouts: course total first, then two activities
PopLayouts ==
    { \* base 100, explicit weights of 0.5
      <<Col("course", "", 100000, None, <<>>),
        Col("mod", "assign", 10000, 5000, <<>>),
        Col("mod", "quiz", 10000, 5000, <<>>)>>,
      \* base 100, no weights configured
      <<Col("course", "", 100000, None, <<>>),
        Col("mod", "assign", 10000, None, <<>>),
        Col("mod", "quiz", 10000, None, <<>>)>>,
      \* base 20, one weighted activity and one with grademax 0
      <<Col("course", "", 20000, None, <<>>),
        Col("mod", "assign", 10000, 5000, Pct33),
        Col("mod", "forum", 0, 5000, Pct33)>>,
      \* base 20, activities with grademax 0 only
      <<Col("course", "", 20000, None, <<>>),
        Col("mod", "forum", 0, None, <<>>),
        Col("mod", "forum", 0, None, <<>>)>>,
      \* base 20, no activity column at all
      <<Col("course", "", 20000, None, <<>>)>> }

PopProfiles ==
    << Profile(0, None, {}),        \* no grade items
       Profile(3, None, {}),        \* enrolled, never graded
       Profile(3, 0, {}),           \* course total 0, no submission
       Profile(3, None, {2}),       \* a submission, no course total
       Profile(3, 40, {2}),         \* failing, one submission
       Profile(3, 40, {2, 3}),      \* failing, both submissions
       Profile(1, 95, {}),          \* passing, list holds the total only
       Profile(2, 95, {2}),         \* passing, list one column short
       Profile(3, 95, {2, 3}),      \* passing, both submissions
       Profile(3, 40, {}) >>        \* failing, no submission

InitPop ==
    \E cols \in PopLayouts :
        \E roster \in Rosters(4, MaxStudents, Len(PopProfiles)) :
            Called(MkGradebook(cols, PopProfiles, roster))

Spec == InitPop /\ [][Next]_vars

(***************************************************************************)
(* Claims checked on the population family (Spec).                         *)
(***************************************************************************)
Roster == grades_data.usergrades
Students == 1..Len(Roster)
WhitelistSet == {whitelisted_indices[j] : j \in 1..Len(whitelisted_indices)}

\* the raw grade of the student's course item, 0 when it has none
CourseRaw(items) ==
    IF \E k \in 1..Len(items) :
           items[k].itemtype = "course" /\ IsNumber(items[k].graderaw)
    THEN (CHOOSE it \in {items[k] : k \in 1..Len(items)} :
              it.itemtype = "course" /\ IsNumber(it.graderaw)).graderaw
    ELSE 0

\* the whitelisted columns in which the student holds a grade
Done(items, wlset) ==
    {idx \in wlset : idx <= Len(items) /\ items[idx].graderaw # None}

\* eligibility as the specification words it (section 4.4, item 3)
Eligible(items, wlset) ==
    Len(items) > 0 /\ (CourseRaw(items) >= 100 \/ Done(items, wlset) # {})

\* the whitelist of a roster, by the engine's STEP 1
WhitelistOf(ug) ==
    LET ms == MetaScan(ug)
    IN  Whitelist(ms.meta, ms.counts, ms.total, HasExplicitWeights(ms.meta))

EligibleIn(ug) ==
    LET wl == WhitelistOf(ug)
        wlset == {wl[j] : j \in 1..Len(wl)}
    IN  {i \in 1..Len(ug) : Eligible(ug[i].gradeitems, wlset)}

\* C1 (minimum population gate): a gradebook with fewer than 5 eligible
\* participants never yields a result, and every result reports at least 5
\* processed students.
TheoremC1_MinimumPopulationGate ==
    pc = "done" =>
        /\ Cardinality(EligibleIn(Roster)) < 5 => outcome = "none"
        /\ outcome = "result" => result.n_estudiantes_procesados >= 5

\* five students or more, four of them eligible: the final gate returns None
WitnessC1_FourOfManyEligible ==
    /\ pc = "done" /\ outcome = "none"
    /\ Len(Roster) >= 5
    /\ Cardinality(EligibleIn(Roster)) = 4
    /\ processed_count = 4

\* C2 (compliance cap): ind_1_1_cumplimiento of a result is None or lies in
\* [0, 100].
TheoremC2_ComplianceCap ==
    outcome = "result" =>
        \/ result.ind_1_1_cumplimiento = None
        \/ (result.ind_1_1_cumplimiento >= 0
            /\ result.ind_1_1_cumplimiento <= 10000)

\* students completed more items than the summed denominator: the cap acts
WitnessC2_CapActs ==
    /\ outcome = "result"
    /\ total_checks_count > total_potential_capacity
    /\ \E i \in Students : student_kpis[i].completed > final_denominator
    /\ result.ind_1_1_cumplimiento = 10000

\* C3 (denominator >= 1): once the denominator is resolved for a course that
\* is no digital desert it is at least 1, and the density division of STEP 2
\* does not fail.
TheoremC3_DenominatorAtLeastOne ==
    /\ (pc \in {"step2", "step3"} /\ ~is_digital_desert)
           => final_denominator >= 1
    /\ outcome # "raised"

\* a passing student without any completed item, and no passing student with
\* one: the denominator falls back to the size of the whitelist
WitnessC3_PasserWithoutTasks ==
    /\ pc = "step2" /\ ~is_digital_desert
    /\ \E i \in Students :
           /\ HasItems(Roster[i])
           /\ Passes(NormFinal(CourseRaw(Roster[i].gradeitems),
                               should_normalize, normalize_divisor))
    /\ \A i \in Students :
           Passes(NormFinal(CourseRaw(Roster[i].gradeitems),
                            should_normalize, normalize_divisor))
               => Done(Roster[i].gradeitems, WhitelistSet) = {}
    /\ final_denominator = Len(whitelisted_indices)

\* every column that is neither course nor category has grademax 0, or
\* there is no such column
NoGradedActivity(ug) ==
    \A i \in 1..Len(ug) : \A k \in 1..Len(ug[i].gradeitems) :
        \/ ug[i].gradeitems[k].itemtype \in {"course", "category"}
        \/ ug[i].gradeitems[k].grademax = 0

\* participants of a course without whitelist, and those of them that pass
DesertParticipants(ug) ==
    {i \in 1..Len(ug) : Eligible(ug[i].gradeitems, {})}

DesertPassers(ug, norm, divisor) ==
    {i \in DesertParticipants(ug) :
        LET raw == CourseRaw(ug[i].gradeitems)
            g == IF norm THEN Frac(raw * 20, divisor) ELSE Frac(raw, 1000)
        IN  FracGE(g, Frac(19, 2))}

\* C4 (digital desert): with at least 5 participants and no activity column
\* of positive grademax the whitelist is empty, compliance and completion
\* are None, and approval is passers / participants x 100 from the final
\* grades alone.
TheoremC4_DigitalDesert ==
    (pc = "done" /\ NoGradedActivity(Roster)
     /\ Cardinality(DesertParticipants(Roster)) >= 5) =>
        /\ outcome = "result"
        /\ is_digital_desert /\ whitelisted_indices = <<>>
        /\ result.ind_1_1_cumplimiento = None
        /\ result.ind_1_5_finalizacion = None
        /\ result.ind_1_2_aprobacion =
               Round2Pct(Cardinality(DesertPassers(Roster, should_normalize,
                                                   normalize_divisor)),
                         Cardinality(DesertParticipants(Roster)))

\* a desert whose activity columns exist, hold grades and have grademax 0,
\* with some but not all participants passing
WitnessC4_DesertWithZeroMaxColumns ==
    /\ pc = "done" /\ outcome = "result" /\ is_digital_desert
    /\ NoGradedActivity(Roster)
    /\ \E i \in Students : \E k \in 1..Len(Roster[i].gradeitems) :
           /\ Roster[i].gradeitems[k].itemtype = "mod"
           /\ Roster[i].gradeitems[k].graderaw # None
    /\ result.ind_1_2_num > 0
    /\ result.ind_1_2_num < result.ind_1_2_den

\* the students whose normalized final grade reaches the passing grade
PassingStudents ==
    {i \in Students :
        /\ HasItems(Roster[i])
        /\ Passes(NormFinal(CourseRaw(Roster[i].gradeitems),
                            should_normalize, normalize_divisor))}

SetMax(S) == CHOOSE m \in S : \A x \in S : x <= m

\* the largest number of whitelisted items a passing student completed
MostByPasser ==
    SetMax({Cardinality(Done(Roster[i].gradeitems, WhitelistSet)) :
               i \in PassingStudents})

\* C9 (success-based denominator): for a non-desert course final_denominator
\* is the largest completed count among the passing students when some
\* student passed and that count is positive, and max(|whitelist|, 1)
\* otherwise; a column past the end of a student's list is not completed.
TheoremC9_SuccessBasedDenominator ==
    (pc \in {"step2", "step3"} /\ ~is_digital_desert) =>
        final_denominator =
            IF PassingStudents # {} /\ MostByPasser > 0
            THEN MostByPasser
            ELSE Max2(Cardinality(WhitelistSet), 1)

\* the most active passing student holds a list one column short, so the
\* denominator is below the size of the whitelist
WitnessC9_ShortListPasser ==
    /\ pc = "step2" /\ ~is_digital_desert
    /\ Len(whitelisted_indices) = 2
    /\ final_denominator = 1
    /\ \E i \in PassingStudents :
           /\ Len(Roster[i].gradeitems) < whitelisted_indices[2]
           /\ Cardinality(Done(Roster[i].gradeitems, WhitelistSet)) = 1

\* the students the specification calls participants
Participants ==
    {i \in Students : Eligible(Roster[i].gradeitems, WhitelistSet)}

\* the roster without the students that are no participants
ParticipantsOnly ==
    LET Keep(st) == Eligible(st.gradeitems, WhitelistSet)
    IN  SelectSeq(Roster, Keep)

\* C10 (participant eligibility): a student with grade items is processed
\* iff its course grade is >= 0.1 or it completed a whitelisted item, and
\* the students that are not contribute to no numerator or denominator of
\* indicators 1.1, 1.2, 1.3 and 1.5: the counters are those of the roster
\* without them; every student with grade items counts in ind_1_4_den.
TheoremC10_ParticipantEligibility ==
    /\ pc = "step3" =>
        /\ \A i \in Students :
               student_kpis[i].is_participant <=> i \in Participants
        /\ processed_count = Cardinality(Participants)
        /\ LET a == Aggregate(ParticipantsOnly, whitelisted_indices,
                              is_digital_desert, final_denominator,
                              should_normalize, normalize_divisor)
           IN  /\ total_checks_count = a.total_checks_count
               /\ total_potential_capacity = a.total_potential_capacity
               /\ passing_students_count = a.passing_students_count
               /\ finisher_students_count = a.finisher_students_count
               /\ qualified_grades_for_avg = a.qualified_grades_for_avg
               /\ processed_count = a.processed_count
    /\ outcome = "result" =>
        /\ result.n_estudiantes_procesados = Cardinality(Participants)
        /\ result.ind_1_2_den = Cardinality(Participants)
        /\ result.ind_1_5_den = Cardinality(Participants)
        /\ result.ind_1_4_den =
               Cardinality({i \in Students : HasItems(Roster[i])})
        /\ ~is_digital_desert =>
               result.ind_1_1_den =
                   Cardinality(Participants) * final_denominator

\* a result for a roster holding a student with grade items that is no
\* participant, and a participant by a completed item alone
WitnessC10_NonParticipantInRoster ==
    /\ outcome = "result" /\ ~is_digital_desert
    /\ \E i \in Students : HasItems(Roster[i]) /\ i \notin Participants
    /\ \E i \in Participants :
           /\ CourseRaw(Roster[i].gradeitems) < 100
           /\ Done(Roster[i].gradeitems, WhitelistSet) # {}
    /\ result.ind_1_4_den > result.n_estudiantes_procesados

(***************************************************************************)
(* The scale family: 5 students over a course item and one activity, the   *)
(* course grademax on and around the thresholds of lines 60-64, the raw    *)
(* course grades on and around 22.  In some gradebooks the first student's *)
(* course item has grademax 0, in some no item is of type course.          *)
(***************************************************************************)
ScaleStudents == 5

ScaleMaxima == {0, 1, 2, 10000, 19899, 19900, 20000, 20100, 20101, 25000, 25001,
     100000}

ScaleLayout(type, gmax) ==
    <<Col(type, "", gmax, None, <<>>),
      Col("mod", "assign", 10000, None, <<>>)>>

\* <<layout of the first student, layout of the others>>
ScaleLayouts ==
    {<<ScaleLayout("course", g), ScaleLayout("course", g)>> : g \in ScaleMaxima}
    \cup {<<ScaleLayout("course", 0), ScaleLayout("course", g)>> :
             g \in {10000, 100000}}
    \cup {<<ScaleLayout("category", 100000), ScaleLayout("category", 100000)>>}

ScaleProfiles ==
    << RawProfile(2, None, {2}),
       RawProfile(2, 300, {}),
       RawProfile(2, 5000, {2}),
       RawProfile(2, 22000, {2}),
       RawProfile(2, 22050, {}),
       RawProfile(2, 95000, {2}) >>

ScaleGradebook(layouts, roster) ==
    GradesData([i \in 1..Len(roster) |->
                   MkStudent(IF i = 1 THEN layouts[1] ELSE layouts[2],
                             ScaleProfiles[roster[i]])])

InitScale ==
    \E layouts \in ScaleLayouts :
        \E roster \in NonDecreasing(ScaleStudents, 1, Len(ScaleProfiles)) :
            Called(ScaleGradebook(layouts, roster))

SpecScale == InitScale /\ [][Next]_vars

\* the students holding a course item of non-zero grademax
Configured(ug) ==
    {i \in 1..Len(ug) : \E k \in 1..Len(ug[i].gradeitems) :
        /\ ug[i].gradeitems[k].itemtype = "course"
        /\ ug[i].gradeitems[k].grademax # 0}

SetMin(S) == CHOOSE m \in S : \A x \in S : m <= x

\* the first non-zero grademax of a course item, 0 when there is none
ConfigMaxOf(ug) ==
    IF Configured(ug) = {} THEN 0
    ELSE LET items == ug[SetMin(Configured(ug))].gradeitems
         IN  (CHOOSE it \in {items[k] : k \in 1..Len(items)} :
                  it.itemtype = "course").grademax

\* the largest raw course grade of any student, 0 when there is none
GlobalMaxOf(ug) ==
    SetMax({0} \cup {CourseRaw(ug[i].gradeitems) : i \in 1..Len(ug)})

\* the decision table of the claim, rule (b) as a parameter
DecisionTable(RuleB(_)) ==
    pc = "step1" =>
        LET cfg == ConfigMaxOf(Roster)
            gmo == GlobalMaxOf(Roster)
        IN  /\ config_max_grade = cfg
            /\ global_max_observed = gmo
            /\ IF cfg > 25000 /\ gmo <= 22000
               THEN ~should_normalize /\ normalize_divisor = 1000
               ELSE IF RuleB(cfg)
                    THEN should_normalize /\ normalize_divisor = cfg
                    ELSE ~should_normalize /\ normalize_divisor = 1000

\* a positive config more than 0.1 away from 20
StatedRuleB(cfg) == cfg > 0 /\ (cfg - 20000 > 100 \/ 20000 - cfg > 100)

\* a config above 0.001 that is 0.1 or more away from 20
AmendedRuleB(cfg) == cfg > 1 /\ (cfg - 20000 >= 100 \/ 20000 - cfg >= 100)

\* C5 as stated (scale normalizer decision table): config_max_grade is the
\* first non-zero course grademax, global_max_observed the largest course
\* raw grade; (a) config > 25 with observed <= 22 does not normalize, (b)
\* otherwise a positive config more than 0.1 away from 20 normalizes with
\* divisor config, (c) every other case, a missing course item included,
\* does not normalize.
CounterexampleC5_ScaleDecisionTable == DecisionTable(StatedRuleB)

\* C5 as amended: the same table, rule (b) asking for a config_max_grade
\* above 0.001 (line 64) instead of a positive one, and 0.1 or more away
\* from 20: a course grademax of 0.001 is not normalized, one of 19.9 or
\* 20.1 is.
TheoremC5_ScaleDecisionAbove001 == DecisionTable(AmendedRuleB)

\* scale protection on a base-100 course whose best grade is exactly 22,
\* the grademax read from the second student because the first holds 0
WitnessC5_ScaleProtection ==
    /\ pc = "step1"
    /\ Roster[1].gradeitems[1].grademax = 0
    /\ config_max_grade = 100000 /\ global_max_observed = 22000
    /\ ~should_normalize /\ normalize_divisor = 1000

\* every course item has grademax 100 and a raw grade that is a whole
\* number of 0.005 points, so that the grade divided by 5 is a grade too
Base100(ug) ==
    \A i \in 1..Len(ug) : \E k \in 1..Len(ug[i].gradeitems) :
        /\ ug[i].gradeitems[k].itemtype = "course"
        /\ ug[i].gradeitems[k].grademax = 100000
        /\ ug[i].gradeitems[k].graderaw # None
               => ug[i].gradeitems[k].graderaw % 5 = 0

\* the same gradebook on the 0-20 scale: course grademax 20, grades / 5
ScaleTo20(ug) ==
    [i \in 1..Len(ug) |->
        Student([k \in 1..Len(ug[i].gradeitems) |->
            LET it == ug[i].gradeitems[k]
            IN  IF it.itemtype = "course"
                THEN [it EXCEPT !.grademax = 20000,
                                !.graderaw = IF @ = None THEN None
                                             ELSE @ \div 5]
                ELSE it])]

\* the students of the two gradebooks get the same normalized grade and the
\* same passing and active classification
SameGrades(ug) ==
    LET other == Engine(GradesData(ScaleTo20(ug))).kpis
    IN  \A i \in 1..Len(ug) :
            /\ FracEq(student_kpis[i].norm_grade, other[i].norm_grade)
            /\ student_kpis[i].passing = other[i].passing
            /\ student_kpis[i].is_active = other[i].is_active

\* C6 as stated (scale invariance): a base-100 gradebook and the same
\* gradebook on base 20 give corresponding students the same normalized
\* grade.
CounterexampleC6_ScaleInvariance ==
    (pc = "step3" /\ Base100(Roster)) => SameGrades(Roster)

\* C6 as amended: the same, for base-100 gradebooks in which some raw
\* course grade exceeds 22 (otherwise the scale-protection rule leaves the
\* base-100 grades as they are).
TheoremC6_ScaleInvarianceAbove22 ==
    (pc = "step3" /\ Base100(Roster) /\ GlobalMaxOf(Roster) > 22000)
        => SameGrades(Roster)

\* a base-100 gradebook that is normalized, with a student at 95 (19 on 20,
\* passing) and one at 5 (1 on 20)
WitnessC6_NormalizedBase100 ==
    /\ pc = "step3" /\ Base100(Roster) /\ GlobalMaxOf(Roster) > 22000
    /\ should_normalize /\ normalize_divisor = 100000
    /\ \E i \in Students :
           student_kpis[i].norm_grade = Frac(19, 1) /\ student_kpis[i].passing
    /\ \E i \in Students :
           student_kpis[i].norm_grade = Frac(1, 1) /\ ~student_kpis[i].passing

(***************************************************************************)
(* The weight family: a course item and two activities, each activity      *)
(* with one of the weight configurations below, the second one with        *)
(* grademax 10 or 0, over rosters of 5 students.                           *)
(***************************************************************************)
WeightStudents == 5

\* <<weightraw, weightformatted>>, the two agreeing as in the web service's
\* payload, where weightformatted is the rendering of weightraw
WeightConfigs ==
    { <<None, <<>>>>,       \* no weight at all
      <<0, Pct0>>,          \* weight 0, shown as "0.00 %"
      <<5000, <<>>>>,       \* weight 0.5, weightformatted left out
      <<5000, Pct50>>,      \* weight 0.5, shown as "50.00 %"
      <<3333, Pct33>> }     \* weight 0.3333, shown as "33.33 %"

WeightLayouts ==
    {<<Col("course", "", 100000, None, <<>>),
       Col("mod", "assign", 10000, a[1], a[2]),
       Col("mod", "quiz", g, b[1], b[2])>> :
        a \in WeightConfigs, b \in WeightConfigs, g \in {0, 10000}}

WeightProfiles ==
    << Profile(3, 40, {}),
       Profile(3, 95, {2}),
       Profile(3, 95, {2, 3}) >>

InitWeights ==
    \E cols \in WeightLayouts :
        \E roster \in NonDecreasing(WeightStudents, 1, Len(WeightProfiles)) :
            Called(MkGradebook(cols, WeightProfiles, roster))

SpecWeights == InitWeights /\ [][Next]_vars

\* a weightformatted that shows no weight or a weight of zero
ZeroLike(wfmt) == wfmt \in {<<>>, NoneStr, Pct0}

\* a strictly positive weight, as the specification words it (4.2, step C)
PositiveWeight(m) ==
    (m.wraw # None /\ m.wraw > 1) \/ ~ZeroLike(m.wfmt)

Activity(m) == m.set /\ m.type \notin {"course", "category"}

\* explicit weighting is in effect (4.2, step B)
ExplicitRegime ==
    \E idx \in 1..max_columns :
        Activity(items_metadata[idx]) /\ PositiveWeight(items_metadata[idx])

\* C7 (whitelist under explicit weighting): under explicit weighting an
\* activity column with grademax > 0.01 is whitelisted iff its weight is
\* strictly positive (weight_raw > 0.0001 or weight_formatted not zero-like).
CounterexampleC7_WhitelistByPositiveWeight ==
    (pc = "step15" /\ ExplicitRegime) =>
        \A idx \in 1..max_columns :
            (Activity(items_metadata[idx]) /\ items_metadata[idx].gmax > 10)
                => (idx \in WhitelistSet
                        <=> PositiveWeight(items_metadata[idx]))

(***************************************************************************)
(* The participation family: no weight is configured; n students with      *)
(* grade items, of which the first a hold a grade in the first activity    *)
(* and the first b in the second, the last s of them with a list that      *)
(* ends before the second activity, preceded by e students without grade   *)
(* items.                                                                  *)
(***************************************************************************)
MaxEnrolled == 21
MaxGraded == 2

ParticipationLayout ==
    <<Col("course", "", 20000, None, <<>>),
      Col("mod", "assign", 10000, None, <<>>),
      Col("mod", "quiz", 10000, None, <<>>)>>

ParticipationGradebook(n, a, b, s, e) ==
    GradesData(
        [i \in 1..(e + n) |->
            IF i <= e THEN Student(<<>>)
            ELSE MkStudent(ParticipationLayout,
                     Profile(IF i - e > n - s THEN 2 ELSE 3, 95,
                             (IF i - e <= a THEN {2} ELSE {})
                             \cup (IF i - e <= b THEN {3} ELSE {})))])

InitParticipation ==
    \E n \in (MaxEnrolled - 2)..MaxEnrolled :
        \E a \in 0..MaxGraded, b \in 0..MaxGraded, s \in 0..1, e \in 0..1 :
            Called(ParticipationGradebook(n, a, b, s, e))

SpecParticipation == InitParticipation /\ [][Next]_vars

WithItems == {i \in Students : HasItems(Roster[i])}

\* the students holding a grade in column idx
GradedIn(idx) ==
    {i \in Students : /\ idx <= Len(Roster[i].gradeitems)
                      /\ Roster[i].gradeitems[idx].graderaw # None}

\* C8 (whitelist without explicit weighting): when no activity column has
\* an explicit weight, an activity column with grademax > 0.01 is
\* whitelisted iff (students with a grade in it) / (students with grade
\* items) >= 0.05; students without grade items count on neither side.
TheoremC8_WhitelistByParticipation ==
    (pc = "step15" /\ ~ExplicitRegime) =>
        \A idx \in 1..max_columns :
            (Activity(items_metadata[idx]) /\ items_metadata[idx].gmax > 10)
                => (idx \in WhitelistSet
                        <=> Cardinality(GradedIn(idx)) * 100
                                >= 5 * Cardinality(WithItems))

\* 20 students with grade items and one without: a column graded for one
\* student is kept (1/20), and with 21 students with items one is dropped
WitnessC8_ExactlyFivePercent ==
    /\ pc = "step15" /\ ~ExplicitRegime
    /\ Cardinality(WithItems) = 20 /\ Len(Roster) = 21
    /\ Cardinality(GradedIn(2)) = 1 /\ 2 \in WhitelistSet
    /\ Cardinality(GradedIn(3)) = 0 /\ 3 \notin WhitelistSet

(***************************************************************************)
(* Claims on the classification of the participants, checked on the        *)
(* population family (Spec).                                               *)
(***************************************************************************)
\* the normalized grade as the specification words it (section 4.4, item
\* 4), in grade points
SpecGrade(i) ==
    LET raw == CourseRaw(Roster[i].gradeitems)
        g == IF should_normalize THEN Frac(raw * 20, normalize_divisor)
             ELSE Frac(raw, 1000)
    IN  IF FracGE(g, Frac(20, 1)) THEN Frac(20, 1) ELSE g

\* the number of whitelisted items the student completed
CompletedBy(i) == Cardinality(Done(Roster[i].gradeitems, WhitelistSet))

\* the active-student rule of the specification
ActiveByRule(i) ==
    IF WhitelistSet = {}
    THEN FracGE(SpecGrade(i), Frac(1, 10))
    ELSE \/ CompletedBy(i) * 100 >= 40 * final_denominator
         \/ FracGE(SpecGrade(i), Frac(19, 2))

\* C11 (active-student rule): a participant counts in ind_1_4_num iff, in
\* digital mode, completed / final_denominator >= 0.40 or its normalized
\* grade is >= 9.5, and in digital-desert mode iff its normalized grade is
\* >= 0.1.
TheoremC11_ActiveStudentRule ==
    /\ pc = "step3" =>
        /\ \A i \in Participants :
               student_kpis[i].is_active <=> ActiveByRule(i)
        /\ active_students_count =
               Cardinality({i \in Participants : ActiveByRule(i)})
    /\ outcome = "result" =>
        result.ind_1_4_num =
            Cardinality({i \in Participants : ActiveByRule(i)})

\* a digital course with a participant that is active by its grade alone,
\* one that is active by its density alone and one that is not active
WitnessC11_ActiveByGradeOrDensity ==
    /\ outcome = "result" /\ WhitelistSet # {}
    /\ \E i \in Participants :
           /\ CompletedBy(i) * 100 < 40 * final_denominator
           /\ FracGE(SpecGrade(i), Frac(19, 2))
    /\ \E i \in Participants :
           /\ CompletedBy(i) * 100 >= 40 * final_denominator
           /\ ~FracGE(SpecGrade(i), Frac(19, 2))
    /\ \E i \in Participants : ~ActiveByRule(i)
    /\ result.ind_1_4_num < result.n_estudiantes_procesados

\* the finisher rule of the specification
FinisherByRule(i) ==
    WhitelistSet # {} /\ CompletedBy(i) * 100 >= 80 * final_denominator

\* C12 (strict finisher rule): a participant counts in ind_1_5_num iff the
\* course is no digital desert and completed / final_denominator >= 0.80;
\* the grade plays no role.
TheoremC12_StrictFinisherRule ==
    /\ pc = "step3" =>
        /\ \A i \in Participants :
               student_kpis[i].is_finisher <=> FinisherByRule(i)
        /\ finisher_students_count =
               Cardinality({i \in Participants : FinisherByRule(i)})
    /\ outcome = "result" =>
        result.ind_1_5_num =
            Cardinality({i \in Participants : FinisherByRule(i)})

\* a participant with the grade 19 and half of the denominator completed
\* is no finisher, next to a participant that is one
WitnessC12_HighGradeNoFinisher ==
    /\ outcome = "result" /\ WhitelistSet # {}
    /\ final_denominator = 2
    /\ \E i \in Participants :
           /\ SpecGrade(i) = Frac(19, 1)
           /\ CompletedBy(i) = 1
           /\ ~student_kpis[i].is_finisher
    /\ \E i \in Participants : student_kpis[i].is_finisher
    /\ result.ind_1_5_num < result.ind_1_2_num

\* num / den x 100 to 2 decimals, as a consumer of the pair computes it
FromPair(num, den) == Round2Pct(num, den)

\* the pairs of the approval, activity and completion rates give back the
\* indicator, and every emitted numerator and denominator is an integer
PairsOfRates ==
    /\ result.ind_1_2_aprobacion
           = FromPair(result.ind_1_2_num, result.ind_1_2_den)
    /\ result.ind_1_4_participacion
           = FromPair(result.ind_1_4_num, result.ind_1_4_den)
    /\ result.ind_1_5_finalizacion # None =>
           result.ind_1_5_finalizacion
               = FromPair(result.ind_1_5_num, result.ind_1_5_den)
    /\ \A n \in {result.ind_1_1_num, result.ind_1_1_den, result.ind_1_2_num,
                 result.ind_1_2_den, result.ind_1_4_num, result.ind_1_4_den,
                 result.ind_1_5_num, result.ind_1_5_den} : n \in Nat

\* C15 as stated (re-aggregable components): in every result each ratio
\* indicator that is not null (compliance, approval, activity, completion)
\* equals num / den x 100 of its emitted pair to 2 decimals, the pair being
\* integers.
CounterexampleC15_PairsGiveIndicators ==
    outcome = "result" =>
        /\ PairsOfRates
        /\ result.ind_1_1_cumplimiento # None =>
               result.ind_1_1_cumplimiento
                   = FromPair(result.ind_1_1_num, result.ind_1_1_den)

\* C15 as amended: the same for approval, activity and completion; the
\* compliance is the ratio of its pair held at 100, which is the ratio of
\* the pair only as long as ind_1_1_num <= ind_1_1_den.
TheoremC15_PairsGiveIndicatorsUpToCap ==
    outcome = "result" =>
        /\ PairsOfRates
        /\ result.ind_1_1_cumplimiento # None =>
               /\ result.ind_1_1_den > 0
               /\ result.ind_1_1_cumplimiento
                      = Min2(FromPair(result.ind_1_1_num, result.ind_1_1_den),
                             10000)

\* a result whose compliance pair gives more than 100 while the indicator
\* is 100, the other three indicators being those of their pairs, neither
\* 0 nor 100
WitnessC15_PairAboveIndicator ==
    /\ outcome = "result"
    /\ result.ind_1_1_num > result.ind_1_1_den /\ result.ind_1_1_den > 0
    /\ result.ind_1_1_cumplimiento = 10000
    /\ result.ind_1_2_num > 0 /\ result.ind_1_2_num < result.ind_1_2_den
    /\ result.ind_1_4_num > 0 /\ result.ind_1_4_num < result.ind_1_4_den
    /\ result.ind_1_5_num > 0 /\ result.ind_1_5_num < result.ind_1_5_den

(***************************************************************************)
(* The density family: a course item on base 100 and DensityColumns        *)
(* activities without weights, over rosters of DensityStudents students;   *)
(* a student fails (40) or passes (95) and holds a grade in the first k    *)
(* activities, k from 0 to DensityColumns.  final_denominator ranges over  *)
(* 1..DensityColumns and the densities over its multiples, 4/5 and 3/4     *)
(* included.                                                               *)
(***************************************************************************)
DensityColumns == 5
DensityStudents == 5

DensityLayout ==
    <<Col("course", "", 100000, None, <<>>)>>
    \o [k \in 1..DensityColumns |-> Col("mod", "assign", 10000, None, <<>>)]

DensityProfiles ==
    [p \in 1..(2 * (DensityColumns + 1)) |->
        Profile(DensityColumns + 1,
                IF p <= DensityColumns + 1 THEN 40 ELSE 95,
                2..(1 + ((p - 1) % (DensityColumns + 1))))]

InitDensity ==
    \E roster \in Rosters(DensityStudents, DensityStudents,
                          Len(DensityProfiles)) :
        Called(MkGradebook(DensityLayout, DensityProfiles, roster))

SpecDensity == InitDensity /\ [][Next]_vars

\* C13 (monotonicity of the finisher status): for a fixed final_denominator
\* a finisher with completed count c is a finisher with every count c' >= c:
\* among the students of a course a finisher's count is never below a
\* non-finisher's, and the rule of lines 234-235 applied to a raised count
\* of a finisher holds as well.
TheoremC13_FinisherMonotone ==
    pc = "step3" =>
        /\ \A i, j \in Participants :
               (student_kpis[i].is_finisher
                /\ student_kpis[i].completed <= student_kpis[j].completed)
                   => student_kpis[j].is_finisher
        /\ \A i \in Participants : \A c \in 0..(DensityColumns + 1) :
               (student_kpis[i].is_finisher
                /\ c >= student_kpis[i].completed)
                   => IsFinisher(is_digital_desert, c, final_denominator)

\* with the denominator 4, a student with 3 items is no finisher, one with
\* 4 is and one with 5 (a density above 1) is
WitnessC13_AcrossTheThreshold ==
    /\ pc = "step3" /\ final_denominator = 4
    /\ \E i \in Participants :
           student_kpis[i].completed = 3 /\ ~student_kpis[i].is_finisher
    /\ \E i \in Participants :
           student_kpis[i].completed = 4 /\ student_kpis[i].is_finisher
    /\ \E i \in Participants :
           student_kpis[i].completed = 5 /\ student_kpis[i].is_finisher

(***************************************************************************)
(* Claims checked on the scale family (SpecScale), continued.              *)
(***************************************************************************)
\* 20 grade points
Twenty == Frac(20, 1)

\* C14 (grade cap): the normalized grade of every participant is
\* min(raw_final / normalize_divisor x 20, 20) when normalizing and
\* min(raw_final, 20) otherwise, so that no grade of the approval count or
\* of the ind_1_3 pool exceeds 20.
TheoremC14_GradeCap ==
    /\ pc = "step3" =>
        /\ \A i \in Participants :
               /\ student_kpis[i].norm_grade = SpecGrade(i)
               /\ FracGE(Twenty, student_kpis[i].norm_grade)
               /\ student_kpis[i].passing
                      <=> FracGE(SpecGrade(i), Frac(19, 2))
        /\ \A k \in 1..Len(qualified_grades_for_avg) :
               FracGE(Twenty, qualified_grades_for_avg[k])
    /\ outcome = "result" =>
        /\ result.ind_1_3_num <= 2000 * result.ind_1_3_den
        /\ result.ind_1_3_nota_promedio <= 2000

\* a normalized course in which a raw grade lies above the course grademax
\* (95 on a grademax of 10, 190 on 20): the grade is held at 20
WitnessC14_CapActs ==
    /\ outcome = "result" /\ should_normalize
    /\ \E i \in Participants :
           /\ CourseRaw(Roster[i].gradeitems) > normalize_divisor
           /\ student_kpis[i].norm_grade = Twenty
           /\ student_kpis[i].qualified
    /\ \E i \in Participants : ~FracGE(student_kpis[i].norm_grade, Twenty)

(***************************************************************************)
(* The end-to-end example of the specification (section 8, item 7): 6      *)
(* students with the course grades 95, 85, 40, 92, 0 and 78 of 100 and two *)
(* assignments of grademax 10 and weightraw 0.5, the weight shown as       *)
(* "50.00 %" or not shown.  The student graded 0 has no submission; the    *)
(* submissions of the others range over all subsets of the two columns.    *)
(***************************************************************************)
ExampleGrades == <<95000, 85000, 40000, 92000, 0, 78000>>

ExampleLayouts ==
    {<<Col("course", "", 100000, None, <<>>),
       Col("mod", "assign", 10000, 5000, w),
       Col("mod", "assign", 10000, 5000, w)>> : w \in {<<>>, Pct50}}

ExampleSubmissions ==
    {g \in [1..Len(ExampleGrades) -> SUBSET {2, 3}] : g[5] = {}}

InitExample ==
    \E cols \in ExampleLayouts : \E g \in ExampleSubmissions :
        Called(MkGradebook(cols,
                   [i \in 1..Len(ExampleGrades) |->
                       RawProfile(3, ExampleGrades[i], g[i])],
                   [i \in 1..Len(ExampleGrades) |-> i]))

SpecExample == InitExample /\ [][Next]_vars

\* C16 (end-to-end example): the engine normalizes with divisor 100, the
\* normalized grades are 19, 17, 8, 18.4, 0 and 15.6, the student graded 0
\* is no participant, 5 students are processed and the approval is 80
\* (4 of 5).
TheoremC16_EndToEndExample ==
    /\ pc \in {"step1", "step15", "step2", "step3", "done"} =>
           should_normalize /\ normalize_divisor = 100000
    /\ pc \in {"step3", "done"} =>
        /\ [i \in Students |-> student_kpis[i].norm_grade]
               = <<Frac(19, 1), Frac(17, 1), Frac(8, 1), Frac(92, 5),
                   Frac(0, 1), Frac(78, 5)>>
        /\ {i \in Students : student_kpis[i].is_participant}
               = {1, 2, 3, 4, 6}
        /\ processed_count = 5
    /\ pc = "done" =>
        /\ outcome = "result"
        /\ result.n_estudiantes_procesados = 5
        /\ result.ind_1_2_aprobacion = 8000
        /\ result.ind_1_2_num = 4 /\ result.ind_1_2_den = 5

\* the example with the weight not shown and the submission counts
\* 2, 2, 1, 2, 0, 1 has run to its result
WitnessC16_ExampleResult ==
    /\ pc = "done" /\ outcome = "result"
    /\ items_metadata[2].wfmt = <<>>
    /\ [i \in Students |-> student_kpis[i].completed] = <<2, 2, 1, 2, 0, 1>>
    /\ whitelisted_indices = <<2, 3>>
    /\ result.ind_1_2_aprobacion = 8000

(***************************************************************************)
(* extract_valid_evaluable_module_types (group1_results.py lines 310-393): *)
(* the module types of the evaluable columns, re-derived from the          *)
(* gradebook for the design indicators.                                    *)
(***************************************************************************)
\* lines 326-329
EvaluableMaxColumns(ug) ==
    LET lens == {Len(ug[k].gradeitems) : k \in 1..Len(ug)} \cup {0}
    IN  CHOOSE m \in lens : \A l \in lens : l <= m

\* lines 347-353: float() raises on the item, line 356 catches and leaves
\* the item uncounted
EvaluableMetaRaises(item) ==
    \/ item.grademax \in {None, NonNumeric}
    \/ item.weightraw = NonNumeric

\* the student whose item fills items_metadata[idx] (lines 346-353): the
\* first whose list reaches the column and whose item float() accepts; 0
\* when the slot stays None
MetaSource(ug, idx) ==
    LET ok == {k \in 1..Len(ug) :
                  /\ Len(ug[k].gradeitems) >= idx
                  /\ ~EvaluableMetaRaises(ug[k].gradeitems[idx])}
    IN  IF ok = {} THEN 0 ELSE CHOOSE k \in ok : \A j \in ok : k <= j

\* participation_counts[idx] (lines 354-355): the graded items of the
\* column, from the student that filled the slot on
EvaluableParticipation(ug, idx) ==
    IF MetaSource(ug, idx) = 0 THEN 0
    ELSE Cardinality({k \in MetaSource(ug, idx)..Len(ug) :
                         /\ Len(ug[k].gradeitems) >= idx
                         /\ ug[k].gradeitems[idx].graderaw # None})

\* mutant: the participation rate is taken over every student record
EvaluableValidStudents_All(ug) == Len(ug)

\* lines 340-342
EvaluableValidStudents(ug) ==
    Cardinality({k \in 1..Len(ug) : Len(ug[k].gradeitems) > 0})

\* lines 362 and 371: a filled slot of a non-aggregate item, as the item
EvaluableSlots(ug) ==
    {idx \in 1..EvaluableMaxColumns(ug) :
        /\ MetaSource(ug, idx) # 0
        /\ ug[MetaSource(ug, idx)].gradeitems[idx].itemtype
               \notin {"course", "category"}}

SlotItem(ug, idx) == ug[MetaSource(ug, idx)].gradeitems[idx]

\* lines 360-366
EvaluableExplicitWeights(ug) ==
    \E idx \in EvaluableSlots(ug) :
        LET it == SlotItem(ug, idx)
        IN  \/ it.weightraw # None /\ it.weightraw > 1
            \/ /\ it.weightformatted \notin {NoneStr, <<>>}
               /\ ~Contains(it.weightformatted, ZeroZeroZero)

\* line 382 evaluates '0.00' in None once wraw is a weight above 0.0001
EvaluableRaises(ug) ==
    /\ EvaluableExplicitWeights(ug)
    /\ \E idx \in EvaluableSlots(ug) :
           LET it == SlotItem(ug, idx)
           IN  /\ it.grademax > 10
               /\ it.weightraw # None /\ it.weightraw > 1
               /\ it.weightformatted = NoneStr

\* lines 370-387: the columns that survive the filters
EvaluableColumns(ug) ==
    {idx \in EvaluableSlots(ug) :
        LET it == SlotItem(ug, idx)
        IN  /\ it.grademax > 10
            /\ IF EvaluableExplicitWeights(ug)
               THEN /\ it.weightraw # None
                    /\ it.weightraw > 1
                    /\ ~Contains(it.weightformatted, ZeroZeroZero)
               ELSE /\ EvaluableValidStudents(ug) > 0
                    /\ EvaluableParticipation(ug, idx) * 100
                           >= MIN_PARTICIPATION_RATE
                                  * EvaluableValidStudents(ug)}

\* mutant: valid_modules is not emptied at line 369 (a set kept between
\* calls)
extract_valid_evaluable_module_types_Kept(gd) ==
    IF gd.kind # "dict" \/ Len(gd.usergrades) = 0
    THEN [raised |-> FALSE, modules |-> {}]
    ELSE IF EvaluableMaxColumns(gd.usergrades) = 0
    THEN [raised |-> FALSE, modules |-> {}]
    ELSE IF EvaluableRaises(gd.usergrades)
    THEN [raised |-> TRUE, modules |-> {}]
    ELSE [raised |-> FALSE,
          modules |-> valid_evaluable_modules
                      \cup ({SlotItem(gd.usergrades, idx).itemmodule :
                                idx \in EvaluableColumns(gd.usergrades)}
                            \ {""})]

\* the function: [raised, modules]
extract_valid_evaluable_module_types(gd) ==
    IF gd.kind # "dict" \/ Len(gd.usergrades) = 0
    THEN [raised |-> FALSE, modules |-> {}]
    ELSE IF EvaluableMaxColumns(gd.usergrades) = 0
    THEN [raised |-> FALSE, modules |-> {}]
    ELSE IF EvaluableRaises(gd.usergrades)
    THEN [raised |-> TRUE, modules |-> {}]
    ELSE [raised |-> FALSE,
          modules |-> {SlotItem(gd.usergrades, idx).itemmodule :
                          idx \in EvaluableColumns(gd.usergrades)} \ {""}]

(***************************************************************************)
(* calculate_design_metrics (group2_design.py).  A section is              *)
(* [modules |-> <<module>>], a module [visible, modname]; a missing        *)
(* visible key is FALSE, a missing modname the empty string.               *)
(***************************************************************************)
ACTIVE_MODULES ==
    {"assign", "quiz", "forum", "workshop", "lesson", "choice", "feedback",
     "glossary", "h5pactivity"}

Module(visible, modname) == [visible |-> visible, modname |-> modname]
Section(modules) == [modules |-> modules]

\* mutant: hidden modules are counted as well
VisibleModules_All(cc) ==
    UNION {{<<s, m>> : m \in 1..Len(cc.sections[s].modules)} :
              s \in 1..Len(cc.sections)}

\* lines 32-36: the modules the loop does not skip, as <<section, position>>
VisibleModules(cc) ==
    {sm \in UNION {{<<s, m>> : m \in 1..Len(cc.sections[s].modules)} :
                      s \in 1..Len(cc.sections)} :
        cc.sections[sm[1]].modules[sm[2]].visible}

ModName(cc, sm) == cc.sections[sm[1]].modules[sm[2]].modname

\* lines 28-79 on the set extract returned
DesignMetrics(cc, valid) ==
    LET total_visible_modules == Cardinality(VisibleModules(cc))
        active == {sm \in VisibleModules(cc) :
                      ModName(cc, sm) \in ACTIVE_MODULES}
        total_active_modules == Cardinality(active)
        evaluated_active_modules ==
            Cardinality({sm \in active : ModName(cc, sm) \in valid})
    IN  [ind_2_1_metod_activa |->
             IF total_visible_modules > 0
             THEN Round2Pct(total_active_modules, total_visible_modules)
             ELSE 0,
         ind_2_2_ratio_eval |->
             IF total_active_modules > 0
             THEN Round2Pct(evaluated_active_modules, total_active_modules)
             ELSE 0,
         ind_2_1_num |-> total_active_modules,
         ind_2_1_den |-> total_visible_modules,
         ind_2_2_num |-> evaluated_active_modules,
         ind_2_2_den |-> total_active_modules]

\* lines 20-79
CalculateDesignMetrics ==
    /\ design_outcome = "pending"
    /\ IF course_contents.kind # "list" \/ Len(course_contents.sections) = 0
       THEN /\ design_outcome' = "empty"
            /\ UNCHANGED <<valid_evaluable_modules, design_result>>
       ELSE \E x \in {extract_valid_evaluable_module_types(grades_data)} :
                IF x.raised
                THEN /\ design_outcome' = "raised"
                     /\ UNCHANGED <<valid_evaluable_modules, design_result>>
                ELSE /\ valid_evaluable_modules' = x.modules
                     /\ design_result' = DesignMetrics(course_contents,
                                                       x.modules)
                     /\ design_outcome' = "result"
    /\ UNCHANGED <<grades_data, course_contents, pc, scaleVars, whitelistVars,
                   final_denominator, counterVars, outcome, result,
                   behaviorVars, callerVars, pipelineVars, dbVars>>

(***************************************************************************)
(* calculate_group3_metrics_from_grades (group3_behavior.py).              *)
(***************************************************************************)
\* lines 22-41 for one student: the first course item, when float() accepts
\* its graderaw and grademax
HasFinalGrade(items) ==
    /\ FirstCourseIdx(items) # 0
    /\ IsNumber(items[FirstCourseIdx(items)].graderaw)
    /\ IsNumber(items[FirstCourseIdx(items)].grademax)

\* line 35: final_gmax > 0 and final_grade / final_gmax >= 0.9
IsExcellent(items) ==
    /\ HasFinalGrade(items)
    /\ items[FirstCourseIdx(items)].grademax > 0
    /\ items[FirstCourseIdx(items)].graderaw * 10
           >= 9 * items[FirstCourseIdx(items)].grademax

\* line 52: max() of an empty sequence raises ValueError
BehaviorMaxColumnsRaises(ug) == \A k \in 1..Len(ug) : ~HasItems(ug[k])

BehaviorMaxColumns(ug) == MaxColumns(ug)

\* lines 56-63: the item that fills items_metadata[idx] is the first one
\* met in the column
BehaviorSlotItem(ug, idx) ==
    LET k == CHOOSE k \in 1..Len(ug) :
                 /\ Len(ug[k].gradeitems) >= idx
                 /\ \A j \in 1..(k - 1) : Len(ug[j].gradeitems) < idx
    IN  ug[k].gradeitems[idx]

\* lines 61-62 are in no try block: float() raises out of the function
BehaviorMetaRaises(ug) ==
    \E idx \in 1..BehaviorMaxColumns(ug) :
        \/ ~IsNumber(BehaviorSlotItem(ug, idx).grademax)
        \/ BehaviorSlotItem(ug, idx).weightraw = NonNumeric

\* line 62: a null weightraw is 0.0
BehaviorWraw(item) == IF item.weightraw = None THEN 0 ELSE item.weightraw

\* lines 64-65
BehaviorParticipation(ug, idx) ==
    Cardinality({k \in 1..Len(ug) :
                    /\ Len(ug[k].gradeitems) >= idx
                    /\ ug[k].gradeitems[idx].graderaw # None})

\* line 67
BehaviorExplicitWeights(ug) ==
    \E idx \in 1..BehaviorMaxColumns(ug) :
        /\ BehaviorSlotItem(ug, idx).itemtype \notin {"course", "category"}
        /\ BehaviorWraw(BehaviorSlotItem(ug, idx)) > 1

\* mutant: every non-aggregate column is in the sample
BehaviorWhitelisted_NonAggregate(ug, idx) ==
    BehaviorSlotItem(ug, idx).itemtype \notin {"course", "category"}

\* lines 70-80
BehaviorWhitelisted(ug, idx) ==
    LET it == BehaviorSlotItem(ug, idx)
    IN  /\ it.itemtype \notin {"course", "category"}
        /\ it.grademax > 10
        /\ IF BehaviorExplicitWeights(ug)
           THEN BehaviorWraw(it) > 1
           ELSE BehaviorParticipation(ug, idx) * 100
                    >= MIN_PARTICIPATION_RATE * Len(ug)

RECURSIVE BehaviorWhitelistFrom(_, _)
BehaviorWhitelistFrom(ug, idx) ==
    IF idx > BehaviorMaxColumns(ug) THEN <<>>
    ELSE IF BehaviorWhitelisted(ug, idx)
         THEN <<idx>> \o BehaviorWhitelistFrom(ug, idx + 1)
         ELSE BehaviorWhitelistFrom(ug, idx + 1)

BehaviorWhitelist(ug) == BehaviorWhitelistFrom(ug, 1)

\* lines 86-96: the graded items of the whitelisted columns, as
\* <<student, column>>
FeedbackSample(ug, wl) ==
    {sc \in (1..Len(ug)) \X {wl[j] : j \in 1..Len(wl)} :
        /\ sc[2] <= Len(ug[sc[1]].gradeitems)
        /\ ug[sc[1]].gradeitems[sc[2]].graderaw # None}

\* line 93
HasFeedback(item) == item.feedback # ""

\* lines 18-46 and 82-112
BehaviorMetrics(ug, wl) ==
    LET total_students_with_final_grade ==
            Cardinality({k \in 1..Len(ug) : HasFinalGrade(ug[k].gradeitems)})
        total_excellence ==
            Cardinality({k \in 1..Len(ug) : IsExcellent(ug[k].gradeitems)})
        total_graded_items_for_feedback == Cardinality(FeedbackSample(ug, wl))
        total_feedbacks ==
            Cardinality({sc \in FeedbackSample(ug, wl) :
                            HasFeedback(ug[sc[1]].gradeitems[sc[2]])})
    IN  [ind_3_1_excelencia |->
             IF total_students_with_final_grade > 0
             THEN Round2Pct(total_excellence, total_students_with_final_grade)
             ELSE 0,
         ind_3_2_feedback |->
             IF total_graded_items_for_feedback > 0
             THEN Round2Pct(total_feedbacks, total_graded_items_for_feedback)
             ELSE 0,
         ind_3_1_num |-> total_excellence,
         ind_3_1_den |-> total_students_with_final_grade,
         ind_3_2_num |-> total_feedbacks,
         ind_3_2_den |-> total_graded_items_for_feedback]

\* lines 11-112
CalculateGroup3Metrics ==
    /\ behavior_outcome = "pending"
    /\ IF grades_data.kind # "dict" \/ Len(grades_data.usergrades) = 0
       THEN /\ behavior_outcome' = "none"
            /\ UNCHANGED <<behavior_whitelisted_indices, behavior_result>>
       ELSE IF \/ BehaviorMaxColumnsRaises(grades_data.usergrades)
               \/ BehaviorMetaRaises(grades_data.usergrades)
       THEN /\ behavior_outcome' = "raised"
            /\ UNCHANGED <<behavior_whitelisted_indices, behavior_result>>
       ELSE \E wl \in {BehaviorWhitelist(grades_data.usergrades)} :
                /\ behavior_whitelisted_indices' = wl
                /\ behavior_result' = BehaviorMetrics(grades_data.usergrades,
                                                      wl)
                /\ behavior_outcome' = "result"
    /\ UNCHANGED <<grades_data, pc, scaleVars, whitelistVars,
                   final_denominator, counterVars, outcome, result,
                   designVars, callerVars, pipelineVars, dbVars>>

\* a course is run through the three compute functions, each on its own
NextCourse == Next \/ CalculateDesignMetrics \/ CalculateGroup3Metrics

(***************************************************************************)
(* The design family: course contents of one or two sections over visible  *)
(* and hidden modules of active and passive types, each with gradebooks    *)
(* whose evaluable module types differ.                                    *)
(***************************************************************************)
MaxModules == 2

DesignModules ==
    {Module(TRUE, "assign"), Module(TRUE, "quiz"), Module(TRUE, "forum"),
     Module(TRUE, "resource"), Module(FALSE, "assign")}

\* the sequences of at most n modules
RECURSIVE ModuleLists(_)
ModuleLists(n) ==
    IF n = 0 THEN {<<>>}
    ELSE ModuleLists(n - 1)
         \cup {<<m>> \o l : m \in DesignModules,
                            l \in {x \in ModuleLists(n - 1) : Len(x) = n - 1}}

DesignContents ==
    {NoContents, CourseContents(<<>>)}
    \cup {CourseContents(<<Section(l)>>) : l \in ModuleLists(MaxModules)}
    \cup {CourseContents(<<Section(l), Section(r)>>) :
             l \in ModuleLists(MaxModules), r \in ModuleLists(1)}

DesignRosters == {<<3, 3, 3, 3, 3>>, <<5, 5, 5, 9, 9>>}

InitDesign ==
    \E cc \in DesignContents, cols \in PopLayouts, roster \in DesignRosters :
        CourseCalled(cc, MkGradebook(cols, PopProfiles, roster))

SpecDesign == InitDesign /\ [][NextCourse]_vars

\* the modules of the course, section after section
RECURSIVE AllModulesFrom(_, _)
AllModulesFrom(sections, s) ==
    IF s > Len(sections) THEN <<>>
    ELSE sections[s].modules \o AllModulesFrom(sections, s + 1)

AllModules == AllModulesFrom(course_contents.sections, 1)

IsVisible(module) == module.visible
IsActiveVisible(module) ==
    module.visible /\ module.modname \in ACTIVE_MODULES
IsEvaluatedActive(module) ==
    IsActiveVisible(module) /\ module.modname \in valid_evaluable_modules

PctOrZero(num, den) == IF den = 0 THEN 0 ELSE RoundDiv(num * 10000, den)

\* C17: the dictionary calculate_design_metrics returns counts visible
\* modules only: ind_2_1_den is the number of visible modules, ind_2_1_num
\* and ind_2_2_den the number of visible modules of an active type,
\* ind_2_2_num the number of those whose type is in the set of evaluable
\* module types, and each percentage is num / den x 100, or 0 when its den
\* is 0
TheoremC17_DesignCounters ==
    design_outcome = "result" =>
        /\ design_result.ind_2_1_den = Len(SelectSeq(AllModules, IsVisible))
        /\ design_result.ind_2_1_num
               = Len(SelectSeq(AllModules, IsActiveVisible))
        /\ design_result.ind_2_2_den = design_result.ind_2_1_num
        /\ design_result.ind_2_2_num
               = Len(SelectSeq(AllModules, IsEvaluatedActive))
        /\ design_result.ind_2_1_metod_activa
               = PctOrZero(design_result.ind_2_1_num,
                           design_result.ind_2_1_den)
        /\ design_result.ind_2_2_ratio_eval
               = PctOrZero(design_result.ind_2_2_num,
                           design_result.ind_2_2_den)

\* a course with a hidden module of an active type and visible ones of
\* active types of which some are evaluated and some are not
WitnessC17_HiddenAndUnevaluated ==
    /\ design_outcome = "result"
    /\ \E k \in 1..Len(AllModules) :
           ~AllModules[k].visible /\ AllModules[k].modname \in ACTIVE_MODULES
    /\ 0 < design_result.ind_2_2_num
    /\ design_result.ind_2_2_num < design_result.ind_2_2_den
    /\ design_result.ind_2_1_den < Len(AllModules)

(***************************************************************************)
(* The evaluable-types family: gradebooks of the weight family over        *)
(* rosters of 4 and 5 students, of the participation family, and of the    *)
(* population layouts with students that hold no or shorter item lists,    *)
(* each run through calculate_group1_metrics and, with a course of two     *)
(* visible activities, through calculate_design_metrics.                   *)
(***************************************************************************)
EvaluableStudents == 5

EvaluableContents ==
    CourseContents(<<Section(<<Module(TRUE, "assign"),
                               Module(TRUE, "quiz")>>)>>)

EvaluableProfiles ==
    << Profile(0, None, {}), Profile(3, 0, {}), Profile(2, 95, {2}),
       Profile(3, 95, {2, 3}) >>

EvaluableGradebooks ==
    {MkGradebook(cols, WeightProfiles, roster) :
        cols \in WeightLayouts,
        roster \in UNION {NonDecreasing(n, 1, Len(WeightProfiles)) :
                             n \in (EvaluableStudents - 1)..EvaluableStudents}}
    \cup {ParticipationGradebook(n, a, b, s, e) :
             n \in (MaxEnrolled - 2)..MaxEnrolled,
             a \in 0..MaxGraded, b \in 0..MaxGraded, s \in 0..1, e \in 0..1}
    \cup {MkGradebook(cols, EvaluableProfiles, roster) :
             cols \in PopLayouts,
             roster \in Rosters(EvaluableStudents - 1, EvaluableStudents,
                                Len(EvaluableProfiles))}

InitEvaluable ==
    \E gd \in EvaluableGradebooks : CourseCalled(EvaluableContents, gd)

SpecEvaluable == InitEvaluable /\ [][NextCourse]_vars

\* the itemmodule values met in column idx of the gradebook
ColumnModules(idx) ==
    {Roster[i].gradeitems[idx].itemmodule :
        i \in {j \in Students : idx <= Len(Roster[j].gradeitems)}}

\* the non-empty itemmodule values of the columns in whitelisted_indices
WhitelistedModules == UNION {ColumnModules(idx) : idx \in WhitelistSet} \ {""}

BothReturned == pc = "done" /\ design_outcome = "result"

\* C18 as stated: for every gradebook, the set
\* extract_valid_evaluable_module_types returns equals the non-empty
\* itemmodule values of the columns calculate_group1_metrics put in
\* whitelisted_indices
CounterexampleC18_SameModulesEveryGradebook ==
    BothReturned => valid_evaluable_modules = WhitelistedModules

\* C18, amended: for every gradebook of at least MIN_STUDENTS_REQUIRED
\* student records, the set extract_valid_evaluable_module_types returns
\* equals the non-empty itemmodule values of the columns
\* calculate_group1_metrics put in whitelisted_indices, and the two filters
\* accept the same columns
TheoremC18_SameModulesFromFiveStudents ==
    (BothReturned /\ Len(Roster) >= MIN_STUDENTS_REQUIRED) =>
        /\ valid_evaluable_modules = WhitelistedModules
        /\ EvaluableColumns(Roster) = WhitelistSet

\* five students or more; one activity column accepted, another rejected
WitnessC18_OneTypeAccepted ==
    /\ BothReturned /\ Len(Roster) >= MIN_STUDENTS_REQUIRED
    /\ valid_evaluable_modules = {"assign"}
    /\ WhitelistSet = {2}
    /\ "quiz" \in ColumnModules(3)

(***************************************************************************)
(* The feedback family: a course total and two further columns (weighted   *)
(* or not, with grademax 10 or 0, an activity or a category), over         *)
(* rosters of students graded in none, one or both of them, with or        *)
(* without feedback text.                                                  *)
(***************************************************************************)
FeedbackStudents == 5

FeedbackLayouts ==
    { \* no weights configured
      <<Col("course", "", 100000, None, <<>>),
        Col("mod", "assign", 10000, None, <<>>),
        Col("mod", "quiz", 10000, None, <<>>)>>,
      \* the assignment weighted 0.5, the quiz without weight
      <<Col("course", "", 100000, None, <<>>),
        Col("mod", "assign", 10000, 5000, Pct50),
        Col("mod", "quiz", 10000, None, <<>>)>>,
      \* a forum with grademax 0
      <<Col("course", "", 100000, None, <<>>),
        Col("mod", "assign", 10000, None, <<>>),
        Col("mod", "forum", 0, None, <<>>)>>,
      \* a category total
      <<Col("course", "", 100000, None, <<>>),
        Col("mod", "assign", 10000, None, <<>>),
        Col("category", "", 100000, None, <<>>)>> }

\* <<columns graded, columns with feedback text>>
FeedbackProfiles ==
    << <<{}, {}>>, <<{2}, {}>>, <<{2}, {2}>>, <<{3}, {3}>>,
       <<{2, 3}, {3}>>, <<{2, 3}, {2, 3}>>, <<{}, {2}>> >>

FeedbackStudent(cols, p) ==
    LET st == MkStudent(cols, Profile(Len(cols), 95, p[1]))
    IN  Student([k \in 1..Len(cols) |->
                    IF k \in p[2]
                    THEN WithFeedback(st.gradeitems[k], "Buen trabajo")
                    ELSE st.gradeitems[k]])

InitFeedback ==
    \E cols \in FeedbackLayouts :
        \E roster \in NonDecreasing(FeedbackStudents, 1,
                                    Len(FeedbackProfiles)) :
            CourseCalled(EvaluableContents,
                GradesData([i \in 1..Len(roster) |->
                    FeedbackStudent(cols, FeedbackProfiles[roster[i]])]))

SpecFeedback == InitFeedback /\ [][NextCourse]_vars

\* the graded items of the columns in cols, as <<student, column>>
GradedItems(cols) ==
    {sc \in Students \X cols :
        /\ sc[2] <= Len(Roster[sc[1]].gradeitems)
        /\ Roster[sc[1]].gradeitems[sc[2]].graderaw # None}

WithFeedbackText(items) ==
    {sc \in items : Roster[sc[1]].gradeitems[sc[2]].feedback # ""}

Columns == 1..MaxColumns(Roster)

\* the item that describes column idx (the first one met)
ColumnItem(idx) ==
    Roster[CHOOSE i \in Students :
               /\ idx <= Len(Roster[i].gradeitems)
               /\ \A j \in 1..(i - 1) : idx > Len(Roster[j].gradeitems)]
        .gradeitems[idx]

NonAggregateColumns ==
    {idx \in Columns : ColumnItem(idx).itemtype \notin {"course", "category"}}

\* the columns of group 3's whitelist, in the words of lines 67-80
FeedbackColumns ==
    {idx \in NonAggregateColumns :
        /\ ColumnItem(idx).grademax > 10
        /\ IF \E c \in NonAggregateColumns :
                  ColumnItem(c).weightraw # None /\ ColumnItem(c).weightraw > 1
           THEN ColumnItem(idx).weightraw # None
                /\ ColumnItem(idx).weightraw > 1
           ELSE Cardinality(GradedItems({idx})) * 100
                    >= MIN_PARTICIPATION_RATE * Len(Roster)}

FeedbackOver(cols) ==
    /\ behavior_result.ind_3_2_den = Cardinality(GradedItems(cols))
    /\ behavior_result.ind_3_2_num
           = Cardinality(WithFeedbackText(GradedItems(cols)))
    /\ behavior_result.ind_3_2_feedback
           = PctOrZero(behavior_result.ind_3_2_num,
                       behavior_result.ind_3_2_den)

InsufficientStudents == 6

InsufficientGradebooks ==
    {NoGrades, GradesData(<<>>)}
    \cup {GradesData([i \in 1..n |-> Student(<<>>)]) :
             n \in 1..InsufficientStudents}
    \cup {MkGradebook(cols, EvaluableProfiles, roster) :
             cols \in PopLayouts,
             roster \in Rosters(4, 5, Len(EvaluableProfiles))}

InitInsufficient ==
    \E gd \in InsufficientGradebooks :
        \E cc \in {NoContents, CourseContents(<<>>), EvaluableContents} :
            CourseCalled(cc, gd)

SpecInsufficient == InitInsufficient /\ [][NextCourse]_vars

\* an empty or missing gradebook, or a student list in which no student
\* has any grade item
NothingToGrade ==
    \/ grades_data.kind # "dict"
    \/ \A i \in Students : ~HasItems(Roster[i])

\* C20 as stated: on an empty or missing gradebook, or a student list in
\* which no student has any grade item, none of the three compute functions
\* raises: calculate_group1_metrics and
\* calculate_group3_metrics_from_grades return None, and
\* calculate_design_metrics gets the empty set of evaluable module types
CounterexampleC20_InsufficientDataNeverRaises ==
    NothingToGrade =>
        /\ outcome \in {"running", "none"}
        /\ design_outcome \in {"pending", "empty", "result"}
        /\ valid_evaluable_modules = {}
        /\ behavior_outcome \in {"pending", "none"}

(***************************************************************************)
(* The malformed family: six students graded in a course total and two     *)
(* activities (weighted or not), one item of one student carrying a        *)
(* non-numeric or null value in one of its fields.                         *)
(***************************************************************************)
MalformedStudents == 6

MalformedLayouts ==
    { <<Col("course", "", 100000, None, <<>>),
        Col("mod", "assign", 10000, None, <<>>),
        Col("mod", "quiz", 10000, None, <<>>)>>,
      <<Col("course", "", 100000, None, <<>>),
        Col("mod", "assign", 10000, 5000, <<>>),
        Col("mod", "quiz", 10000, 5000, <<>>)>> }

\* <<field, value>>: what the payload holds in place of a number or string
Malformations ==
    { <<"none", 0>>,                    \* nothing malformed
      <<"graderaw", NonNumeric>>,
      <<"grademax", None>>, <<"grademax", NonNumeric>>,
      <<"weightraw", NonNumeric>>,
      <<"weightformatted", NoneStr>> }

Malform(item, m) ==
    IF m[1] = "graderaw" THEN [item EXCEPT !.graderaw = m[2]]
    ELSE IF m[1] = "grademax" THEN [item EXCEPT !.grademax = m[2]]
    ELSE IF m[1] = "weightraw" THEN [item EXCEPT !.weightraw = m[2]]
    ELSE IF m[1] = "weightformatted"
         THEN [item EXCEPT !.weightformatted = m[2]]
    ELSE item

\* the gradebook with item k of student v malformed
MalformedGradebook(cols, v, k, m) ==
    GradesData([i \in 1..MalformedStudents |->
        LET st == MkStudent(cols, Profile(3, 95, {2, 3}))
        IN  IF i = v
            THEN Student([st.gradeitems EXCEPT ![k] = Malform(@, m)])
            ELSE st])

InitMalformed ==
    \E cols \in MalformedLayouts, v \in 1..MalformedStudents, k \in 1..3,
       m \in Malformations :
        CourseCalled(EvaluableContents, MalformedGradebook(cols, v, k, m))

SpecMalformed == InitMalformed /\ [][NextCourse]_vars

\* C21 as stated: whatever item carries a non-numeric or null value in
\* graderaw, grademax, weightraw or weightformatted, no compute function
\* ends in an exception, and calculate_group1_metrics still returns the
\* result of the six students
CounterexampleC21_MalformedItemsSkipped ==
    /\ outcome # "raised"
    /\ design_outcome # "raised"
    /\ behavior_outcome # "raised"
    /\ pc = "done" => outcome = "result"

(***************************************************************************)
(* Claims on the whitelist of group 3, checked on the evaluable-types      *)
(* family (SpecEvaluable).                                                 *)
(***************************************************************************)
BehaviorWhitelistSet ==
    {behavior_whitelisted_indices[j] :
        j \in 1..Len(behavior_whitelisted_indices)}

\* C25 as stated: for every gradebook, the whitelisted_indices that
\* calculate_group3_metrics_from_grades computes are the column indices
\* that calculate_group1_metrics computes
CounterexampleC25_SameWhitelistInGroup3 ==
    (pc = "done" /\ behavior_outcome = "result") =>
        BehaviorWhitelistSet = WhitelistSet

(***************************************************************************)
(* Claims on the ordering of the populations, checked on the population    *)
(* family (Spec).                                                          *)
(***************************************************************************)
InPercentRange(x) == 0 <= x /\ x <= 10000

\* C26: in every result of calculate_group1_metrics the finishers and the
\* passing students are active students, so that ind_1_5_num <= ind_1_4_num
\* and ind_1_2_num <= ind_1_4_num <= n_estudiantes_procesados <=
\* n_estudiantes_totales, and the approval, activity and (when not null)
\* completion rates lie between 0 and 100
TheoremC26_PopulationOrdering ==
    outcome = "result" =>
        /\ \A i \in Students :
               /\ student_kpis[i].is_finisher => student_kpis[i].is_active
               /\ (student_kpis[i].is_participant /\ student_kpis[i].passing)
                      => student_kpis[i].is_active
        /\ result.ind_1_5_num <= result.ind_1_4_num
        /\ result.ind_1_2_num <= result.ind_1_4_num
        /\ result.ind_1_4_num <= result.n_estudiantes_procesados
        /\ result.n_estudiantes_procesados <= result.n_estudiantes_totales
        /\ InPercentRange(result.ind_1_2_aprobacion)
        /\ InPercentRange(result.ind_1_4_participacion)
        /\ result.ind_1_5_finalizacion # None
               => InPercentRange(result.ind_1_5_finalizacion)

\* a result in which every inclusion is strict
WitnessC26_StrictInclusions ==
    /\ outcome = "result"
    /\ 0 < result.ind_1_5_num
    /\ result.ind_1_5_num < result.ind_1_4_num
    /\ 0 < result.ind_1_2_num
    /\ result.ind_1_2_num < result.ind_1_4_num
    /\ result.ind_1_4_num < result.n_estudiantes_procesados
    /\ result.n_estudiantes_procesados < result.n_estudiantes_totales

\* C27 as stated: in every non-desert result ind_1_1_num <= ind_1_1_den, and
\* in every desert result both are 0
CounterexampleC27_ComplianceProperFraction ==
    outcome = "result" =>
        IF is_digital_desert
        THEN result.ind_1_1_num = 0 /\ result.ind_1_1_den = 0
        ELSE result.ind_1_1_num <= result.ind_1_1_den

\* C27, amended: in every non-desert result ind_1_1_den is
\* n_estudiantes_procesados times final_denominator and is positive,
\* ind_1_1_num is at most the whitelist size times the students with items,
\* it exceeds ind_1_1_den only when some participant completed more items
\* than final_denominator, and the compliance rate is at most 100; in every
\* desert result both are 0
TheoremC27_ComplianceComponents ==
    outcome = "result" =>
        IF is_digital_desert
        THEN result.ind_1_1_num = 0 /\ result.ind_1_1_den = 0
        ELSE /\ result.ind_1_1_den
                    = result.n_estudiantes_procesados * final_denominator
             /\ result.ind_1_1_den > 0
             /\ result.ind_1_1_num
                    <= Len(whitelisted_indices) * result.n_estudiantes_totales
             /\ result.ind_1_1_num > result.ind_1_1_den
                    => \E i \in Students :
                           /\ student_kpis[i].is_participant
                           /\ student_kpis[i].completed > final_denominator
             /\ result.ind_1_1_cumplimiento <= 10000

\* a non-desert result whose completed items exceed the capacity: a failing
\* participant completed more than the passing students did
WitnessC27_MoreChecksThanCapacity ==
    /\ outcome = "result" /\ ~is_digital_desert
    /\ result.ind_1_1_num > result.ind_1_1_den
    /\ \E i \in Students :
           /\ student_kpis[i].is_participant /\ ~student_kpis[i].passing
           /\ student_kpis[i].completed > final_denominator

(***************************************************************************)
(* Repeated invocations.  A caller runs the three compute functions on a   *)
(* course, and once the three have returned runs them on a course again,   *)
(* the same one or another.  The functions have no module-level variables  *)
(* (group1_results.py lines 5-15 and group2_design.py lines 4-7 are        *)
(* constants): all they could carry over is what their locals held, which  *)
(* the new invocation finds as the last one left it.                       *)
(***************************************************************************)
MaxCalls == 3

RepeatGradebooks ==
    {MkGradebook(cols, PopProfiles, roster) :
        cols \in {l \in PopLayouts : Len(l) = 3 /\ l[2].module = "assign"},
        roster \in DesignRosters}

RepeatContents ==
    {NoContents,
     CourseContents(<<Section(<<Module(TRUE, "assign"),
                                Module(TRUE, "quiz"),
                                Module(FALSE, "forum")>>)>>)}

\* what the three functions returned to the caller
Returned ==
    [input |-> called_with,
     group1 |-> <<outcome, result>>,
     design |-> <<design_outcome,
                  IF design_outcome = "result" THEN design_result
                  ELSE NoDesignResult>>,
     behavior |-> <<behavior_outcome,
                    IF behavior_outcome = "result" THEN behavior_result
                    ELSE NoBehaviorResult>>]

AllReturned ==
    pc = "done" /\ design_outcome # "pending" /\ behavior_outcome # "pending"

InvokeAgain ==
    /\ AllReturned /\ calls < MaxCalls
    /\ \E cc \in RepeatContents, gd \in RepeatGradebooks :
           /\ course_contents' = cc /\ grades_data' = gd
           /\ called_with' = <<cc, gd>>
    /\ calls' = calls + 1
    /\ returned' = returned \cup {Returned}
    /\ pc' = "validate" /\ outcome' = "running"
    /\ design_outcome' = "pending" /\ behavior_outcome' = "pending"
    /\ UNCHANGED <<scaleVars, whitelistVars, final_denominator, counterVars,
                   result, valid_evaluable_modules, design_result,
                   behavior_whitelisted_indices, behavior_result,
                   pipelineVars, dbVars>>

NextRepeat == NextCourse \/ InvokeAgain

InitRepeat ==
    \E cc \in RepeatContents, gd \in RepeatGradebooks : CourseCalled(cc, gd)

SpecRepeat == InitRepeat /\ [][NextRepeat]_vars

MsgTimeout == <<"T", "i", "m", "e", "o", "u", "t">>
MsgDeadlock == <<"d", "e", "a", "d", "l", "o", "c", "k">>
MsgRefused == <<"r", "e", "f", "u", "s", "e", "d">>
MsgNull == <<"n", "u", "l", "l">>

Behaviour(f, m, r) == [fails |-> f, message |-> m, rollback_raises |-> r]

GoesThrough == Behaviour("never", <<>>, FALSE)

DbBehaviours ==
    {GoesThrough}
    \cup {Behaviour("connect", m, FALSE) : m \in {MsgTimeout, MsgRefused}}
    \cup {Behaviour("execute", m, r) :
            m \in {MsgTimeout, MsgDeadlock, MsgNull}, r \in BOOLEAN}

\* range(3), line 157
MaxAttempts == 3

\* str.lower(), over the letters of the messages
LowerChar(c) == IF c = "T" THEN "t" ELSE IF c = "L" THEN "l" ELSE c

Lower(s) == [k \in 1..Len(s) |-> LowerChar(s[k])]

\* "timeout" in str(e).lower() or "lock" in str(e).lower(), line 174
IsRetryable(message) ==
    \/ Contains(Lower(message), <<"t", "i", "m", "e", "o", "u", "t">>)
    \/ Contains(Lower(message), <<"l", "o", "c", "k">>)

Ended(o, c, t) == [outcome |-> o, committed |-> c, trace |-> t]

RECURSIVE SaveAttempts(_, _, _)
\* mutant: the connection is closed after a commit only, not in finally
SaveAttempts_NoFinally(script, attempt, trace) ==
    IF attempt > MaxAttempts
    THEN Ended("returned", FALSE, trace)
    ELSE LET b == script[attempt]
             begun == Append(trace, "attempt")
         IN  IF b.fails = "never"
             THEN Ended("returned", TRUE,
                        begun \o <<"connect", "commit", "close">>)
             ELSE IF b.fails = "connect"
             THEN IF IsRetryable(b.message)
                  THEN SaveAttempts(script, attempt + 1,
                                    Append(begun, "sleep"))
                  ELSE Ended("raised", FALSE, begun)
             ELSE IF b.rollback_raises
             THEN Ended("raised", FALSE, begun \o <<"connect", "rollback">>)
             ELSE IF IsRetryable(b.message)
             THEN SaveAttempts(script, attempt + 1,
                               begun \o <<"connect", "rollback", "sleep">>)
             ELSE Ended("raised", FALSE, begun \o <<"connect", "rollback">>)

\* the loop of lines 157-180 from the given attempt on
SaveAttempts(script, attempt, trace) ==
    IF attempt > MaxAttempts
    THEN Ended("returned", FALSE, trace)
    ELSE LET b == script[attempt]
             begun == Append(trace, "attempt")
         IN  IF b.fails = "never"
             THEN Ended("returned", TRUE,
                        begun \o <<"connect", "commit", "close">>)
             ELSE IF b.fails = "connect"
             THEN IF IsRetryable(b.message)
                  THEN SaveAttempts(script, attempt + 1,
                                    Append(begun, "sleep"))
                  ELSE Ended("raised", FALSE, begun)
             ELSE IF b.rollback_raises
             THEN Ended("raised", FALSE,
                        begun \o <<"connect", "rollback", "close">>)
             ELSE IF IsRetryable(b.message)
             THEN SaveAttempts(script, attempt + 1,
                               begun \o <<"connect", "rollback", "sleep",
                                          "close">>)
             ELSE Ended("raised", FALSE,
                        begun \o <<"connect", "rollback", "close">>)

save_analytics_data_to_db(script) == SaveAttempts(script, 1, <<>>)

SaveAnalyticsDataToDb ==
    /\ db_call = NoCall /\ db_script # <<>>
    /\ db_call' = save_analytics_data_to_db(db_script)
    /\ UNCHANGED <<grades_data, pc, scaleVars, whitelistVars,
                   final_denominator, counterVars, outcome, result,
                   designVars, behaviorVars, callerVars, pipelineVars,
                   db_script>>

DbScripts == [1..MaxAttempts -> DbBehaviours]

InitSave ==
    /\ EngineCalled(NoContents, NoGrades) /\ PipelineIdle
    /\ db_script \in DbScripts /\ db_call = NoCall

SpecSave == InitSave /\ [][SaveAnalyticsDataToDb]_vars

Count(t, ev) == Cardinality({p \in DOMAIN t : t[p] = ev})

\* the connections open after the first p steps of a call
OpenAfter(t, p) ==
    Cardinality({q \in 1..p : t[q] = "connect"})
    - Cardinality({q \in 1..p : t[q] = "close"})

\* the message mentions timeout or lock, in whatever case
MentionsTimeoutOrLock(message) ==
    message \in {MsgTimeout, MsgDeadlock}

\* attempt k of the call failed
FailedAttempt(k) ==
    /\ k <= Count(db_call.trace, "attempt")
    /\ db_script[k].fails # "never"

\* what holds of every call whatever the claim about rollbacks
RetryDiscipline ==
    LET t == db_call.trace
        n == Count(t, "attempt")
    IN  /\ n >= 1 /\ n <= 3
        /\ \A k \in 1..(n - 1) :
               FailedAttempt(k) /\ MentionsTimeoutOrLock(db_script[k].message)
        /\ \A k \in 1..n :
               (FailedAttempt(k)
                /\ ~MentionsTimeoutOrLock(db_script[k].message))
                   => n = k /\ db_call.outcome = "raised"
        /\ \A p \in DOMAIN t : OpenAfter(t, p) \in {0, 1}
        /\ \A p \in DOMAIN t : t[p] = "attempt" => OpenAfter(t, p) = 0
        /\ OpenAfter(t, Len(t)) = 0

\* C29 as stated: the retry discipline, and every failed attempt rolled back
CounterexampleC29_EveryFailedAttemptRolledBack ==
    db_call # NoCall =>
        /\ RetryDiscipline
        /\ Count(db_call.trace, "rollback")
               = Cardinality({k \in 1..3 : FailedAttempt(k)})

\* C29 amended: one call makes at most 3 attempts; a new attempt follows
\* only a failure whose message mentions timeout or lock, any other failure
\* ends the call with an exception on its first occurrence; rollback is
\* called in every failed attempt that had opened a connection, and in no
\* other; the connection opened in an attempt is closed before the next
\* attempt starts or the call ends, so at most one is open at any time
TheoremC29_BoundedRetry ==
    db_call # NoCall =>
        /\ RetryDiscipline
        /\ Count(db_call.trace, "rollback")
               = Cardinality({k \in 1..3 :
                                 FailedAttempt(k)
                                 /\ db_script[k].fails = "execute"})

\* a call of three attempts: one that could not connect, one rolled back
\* after a deadlock, one that committed
WitnessC29_ThirdAttemptCommits ==
    /\ db_call.committed
    /\ Count(db_call.trace, "attempt") = 3
    /\ Count(db_call.trace, "rollback") = 1
    /\ Count(db_call.trace, "close") = 2
    /\ \E k \in 1..2 : db_script[k].fails = "connect"

(***************************************************************************)
(* The worker: execute_course_task (etl_pipeline.py lines 50-84).          *)
(* process_course_analytics is called at line 53; what it answers is an    *)
(* input: it raises, or returns nothing, or returns a record without the   *)
(* fields lines 59-74 read, or returns the course's data.                  *)
(***************************************************************************)
AnalyticsAnswers == {"raises", "nothing", "incomplete", "data"}

SkippedReason == "Datos insuficientes o filtrados por calidad"

TaskResult(status, answer, saved, committed, text) ==
    [status |-> status, analytics |-> answer, saved |-> saved,
     committed |-> committed, text |-> text]

NoTaskResult == TaskResult("none", "none", FALSE, FALSE, "")

\* mutant: the body without the test of line 55, the enrichment reading
\* the fields of nothing
TryBody_NoDataTest(answer, script) ==
    IF answer = "raises"
    THEN TaskResult("raised", answer, FALSE, FALSE, "analytics")
    ELSE IF answer \in {"nothing", "incomplete"}
    THEN TaskResult("raised", answer, FALSE, FALSE, "KeyError")
    ELSE LET saved == save_analytics_data_to_db(script)
         IN  IF saved.outcome = "raised"
             THEN TaskResult("raised", answer, TRUE, FALSE, "database")
             ELSE TaskResult("success", answer, TRUE, saved.committed, "")

\* lines 51-82, the body of the try: the value returned, or status "raised"
\* for an exception
TryBody(answer, script) ==
    IF answer = "raises"
    THEN TaskResult("raised", answer, FALSE, FALSE, "analytics")
    ELSE IF answer = "nothing"
    THEN TaskResult("skipped", answer, FALSE, FALSE, SkippedReason)
    ELSE IF answer = "incomplete"
    THEN TaskResult("raised", answer, FALSE, FALSE, "KeyError")
    ELSE LET saved == save_analytics_data_to_db(script)
         IN  IF saved.outcome = "raised"
             THEN TaskResult("raised", answer, TRUE, FALSE, "database")
             ELSE TaskResult("success", answer, TRUE, saved.committed, "")

\* mutant: the body without the except clause of lines 83-84
execute_course_task_NoExcept(answer, script) == TryBody(answer, script)

execute_course_task(answer, script) ==
    LET r == TryBody(answer, script)
    IN  IF r.status = "raised"
        THEN [r EXCEPT !.status = "error"]
        ELSE r

\* what a task can return, over every answer and every database script
TaskResults ==
    {execute_course_task(answer, script) :
        answer \in AnalyticsAnswers, script \in DbScripts}

(***************************************************************************)
(* The orchestration: run_pipeline from line 160 on, with a non-empty      *)
(* queue.  The executor starts the submitted tasks in submission order,    *)
(* at most MAX_WORKERS at a time; as_completed yields the finished tasks   *)
(* in any order.  The stop signal is set by ETLApp.on_closing while the    *)
(* run is in progress (app.py lines 238-241) and cleared only before a     *)
(* run (line 215).                                                         *)
(***************************************************************************)
MAX_WORKERS == 4

MaxCourses == 4

Future(state, r) == [state |-> state, result |-> r]

Line(kind, id, text) == [kind |-> kind, id |-> id, text |-> text]

StoppedLine == Line("stopped", 0, "Proceso detenido por el usuario.")
CancelledLine == Line("final", 0, "--- Proceso CANCELADO ---")
SuccessLine == Line("final", 0, "--- Proceso Finalizado con Exito ---")

total_courses == Len(courses_queue)

Running == {k \in DOMAIN futures : futures[k].state = "running"}
PendingTasks == {k \in DOMAIN futures : futures[k].state = "pending"}
Finished == {k \in DOMAIN futures : futures[k].state = "finished"}
Yielded == {yielded[p] : p \in DOMAIN yielded}

\* the state at line 162, every course of the queue submitted
Submitted(queue) ==
    /\ courses_queue = queue
    /\ futures = [k \in DOMAIN queue |-> Future("pending", NoTaskResult)]
    /\ run_pc = "loop" /\ yielded = <<>>
    /\ log = <<Line("processing", 0, "")>>
    /\ progress = <<>> /\ stop_event = FALSE

engineVars == <<grades_data, pc, scaleVars, whitelistVars, final_denominator,
                counterVars, outcome, result, designVars, behaviorVars,
                callerVars>>

\* a worker takes the oldest submitted task
StartTask ==
    /\ PendingTasks # {} /\ Cardinality(Running) < MAX_WORKERS
    /\ \E k \in PendingTasks :
           /\ \A j \in PendingTasks : k <= j
           /\ futures' = [futures EXCEPT ![k].state = "running"]
    /\ UNCHANGED <<engineVars, dbVars, courses_queue, run_pc, yielded, log,
                   progress, stop_event>>

\* a running task returns
FinishTask ==
    /\ \E k \in Running, r \in TaskResults :
           futures' = [futures EXCEPT ![k] = Future("finished", r)]
    /\ UNCHANGED <<engineVars, dbVars, courses_queue, run_pc, yielded, log,
                   progress, stop_event>>

\* ETLApp.on_closing while the run is in progress
SetStop ==
    /\ run_pc \in {"loop", "stopping", "exiting"} /\ ~stop_event
    /\ stop_event' = TRUE
    /\ UNCHANGED <<engineVars, dbVars, courses_queue, futures, run_pc,
                   yielded, log, progress>>

\* lines 171-181: the line logged for a result
ResultLine(id, r) ==
    IF r.status = "success" THEN Line("OK", id, "")
    ELSE IF r.status = "skipped" THEN Line("OMITIR", id, r.text)
    ELSE Line("ERR", id, r.text)

\* lines 165-169: as_completed yields a finished task and the stop signal
\* is found set
ObserveStop ==
    /\ run_pc = "loop" /\ stop_event
    /\ \E k \in Finished \ Yielded : yielded' = Append(yielded, k)
    /\ log' = Append(log, StoppedLine)
    /\ run_pc' = "stopping"
    /\ UNCHANGED <<engineVars, dbVars, courses_queue, futures, progress,
                   stop_event>>

\* mutant: executor.shutdown(wait=False) without cancel_futures
Shutdown_KeepsQueued ==
    /\ run_pc = "stopping"
    /\ run_pc' = "exiting"
    /\ UNCHANGED <<engineVars, dbVars, courses_queue, futures, yielded, log,
                   progress, stop_event>>

\* line 168: executor.shutdown(wait=False, cancel_futures=True), and break
Shutdown ==
    /\ run_pc = "stopping"
    /\ futures' = [k \in DOMAIN futures |->
                      IF futures[k].state = "pending"
                      THEN Future("cancelled", NoTaskResult)
                      ELSE futures[k]]
    /\ run_pc' = "exiting"
    /\ UNCHANGED <<engineVars, dbVars, courses_queue, yielded, log, progress,
                   stop_event>>

\* lines 165, 171-184: as_completed yields a finished task, the stop signal
\* is not set, and the result is handled; future.result() raises what the
\* task raised
HandleResult ==
    /\ run_pc = "loop" /\ ~stop_event
    /\ \E k \in Finished \ Yielded :
           /\ yielded' = Append(yielded, k)
           /\ IF futures[k].result.status = "raised"
              THEN /\ run_pc' = "raised"
                   /\ UNCHANGED <<log, progress>>
              ELSE /\ log' = Append(log, ResultLine(courses_queue[k],
                                                    futures[k].result))
                   /\ progress' = Append(progress,
                                         <<Len(yielded) + 1, total_courses>>)
                   /\ run_pc' = IF Len(yielded) + 1 = total_courses
                                THEN "exiting" ELSE "loop"
    /\ UNCHANGED <<engineVars, dbVars, courses_queue, futures, stop_event>>

\* the end of the with block joins the workers (line 162), then lines
\* 186-189
ExitPool ==
    /\ run_pc = "exiting" /\ Running = {}
    /\ log' = Append(log, IF stop_event THEN CancelledLine ELSE SuccessLine)
    /\ run_pc' = "ended"
    /\ UNCHANGED <<engineVars, dbVars, courses_queue, futures, yielded,
                   progress, stop_event>>

NextPipeline ==
    \/ StartTask \/ FinishTask \/ SetStop \/ ObserveStop \/ Shutdown
    \/ HandleResult \/ ExitPool

\* the ids of the queued courses
CourseIds(n) == [k \in 1..n |-> 100 + k]

InitPipeline ==
    /\ EngineCalled(NoContents, NoGrades) /\ DbIdle
    /\ Submitted(CourseIds(MaxCourses))

SpecPipeline == InitPipeline /\ [][NextPipeline]_vars

\* the stop signal has been found set in the loop
Observed == \E p \in DOMAIN log : log[p] = StoppedLine

\* the lines logged for course results
ResultLines(l) == {p \in DOMAIN l : l[p].kind \in {"OK", "OMITIR", "ERR"}}

Cancelled == {k \in DOMAIN futures : futures[k].state = "cancelled"}

\* C23: a course result is handled only in a step that finds the stop
\* signal not set; once the signal has been found set no course result is
\* logged or reported through progress_callback, the tasks not yet started
\* are cancelled and never run, and the run ends with the cancelled message
\* and never with the success message
TheoremC23_CooperativeCancellation ==
    [][/\ (progress' # progress \/ ResultLines(log') # ResultLines(log))
              => ~stop_event
       /\ Observed
              => progress' = progress /\ ResultLines(log') = ResultLines(log)
       /\ (run_pc = "stopping" /\ run_pc' # "stopping")
              => Cancelled' = Cancelled \cup PendingTasks
       /\ (Observed /\ run_pc # "stopping") => PendingTasks = {}
       /\ Cancelled \subseteq Cancelled'
       /\ (Observed' /\ run_pc' = "ended")
              => /\ log'[Len(log')] = CancelledLine
                 /\ \A p \in DOMAIN log' : log'[p] # SuccessLine]_vars

\* a cancelled run: one result was handled, the signal was found set when
\* a second task was yielded, a third task finished without being yielded
\* and the fourth was cancelled before it started
WitnessC23_StoppedMidway ==
    /\ run_pc = "ended" /\ Observed
    /\ Len(progress) = 1
    /\ Cardinality(Cancelled) = 1
    /\ Cardinality(Finished \ Yielded) = 1
    /\ Cardinality(Finished) = 3

Statuses == {futures[k].result.status : k \in Finished}

\* C30: while the stop signal is not set, in whatever order the tasks
\* finish and whichever of them fail: no task ends with an exception, the
\* results handled so far are those of distinct courses, one line and one
\* progress_callback call each, the calls being (1, total), (2, total), ...
\* in this order; the run does not block before its end, and at its end
\* every queued course has finished and has been handled
TheoremC30_OneOutcomePerCourse ==
    ~stop_event =>
        /\ run_pc # "raised"
        /\ Statuses \subseteq {"success", "skipped", "error"}
        /\ Cardinality(Yielded) = Len(yielded)
        /\ Yielded \subseteq Finished
        /\ Len(progress) = Len(yielded)
        /\ \A i \in DOMAIN progress : progress[i] = <<i, total_courses>>
        /\ Cardinality(ResultLines(log)) = Len(yielded)
        /\ \A p \in DOMAIN yielded :
               log[p + 1] = ResultLine(courses_queue[yielded[p]],
                                       futures[yielded[p]].result)
        /\ run_pc # "ended"
               => ENABLED (StartTask \/ FinishTask \/ HandleResult
                           \/ ExitPool)
        /\ run_pc = "ended"
               => /\ Finished = DOMAIN courses_queue
                  /\ Yielded = DOMAIN courses_queue
                  /\ Len(progress) = total_courses
                  /\ log[Len(log)] = SuccessLine

\* a run that ended with the three outcomes among its four courses, the
\* last course submitted handled first
WitnessC30_AllOutcomesOutOfOrder ==
    /\ run_pc = "ended" /\ ~stop_event
    /\ Statuses = {"success", "skipped", "error"}
    /\ yielded[1] = 4 /\ futures[4].result.status = "error"
    /\ futures[1].result.status = "success"

\* the finished courses whose analytics yielded no data
NoData == {k \in Finished : futures[k].result.analytics = "nothing"}

\* the courses whose result has been handled
Handled == {yielded[p] : p \in 1..Len(progress)}

LinesOf(k) == {p \in DOMAIN log : log[p].id = courses_queue[k]}

\* C24: a course whose analytics yield no data is returned as skipped with
\* the reason and without a call of the persistence function; once its
\* result is handled the log has one line for the course, the omission
\* line with the course id and that reason, and a run that ends without
\* having found the stop signal set has handled it
TheoremC24_OmittedWithReason ==
    \A k \in NoData :
        /\ futures[k].result.status = "skipped"
        /\ futures[k].result.text = SkippedReason /\ SkippedReason # ""
        /\ ~futures[k].result.saved /\ ~futures[k].result.committed
        /\ k \in Handled
               => \E p \in DOMAIN log :
                      /\ LinesOf(k) = {p}
                      /\ log[p] = Line("OMITIR", courses_queue[k],
                                       SkippedReason)
        /\ k \notin Handled => LinesOf(k) = {}
        /\ (run_pc = "ended" /\ ~Observed) => k \in Handled

\* a finished run with an omitted course and a failed one, both handled
WitnessC24_OmissionLogged ==
    /\ run_pc = "ended" /\ ~Observed
    /\ \E k \in NoData : k \in Handled
    /\ \E k \in Handled : futures[k].result.status = "error"
    /\ \E p \in DOMAIN log : log[p].kind = "OMITIR"

\* C28: a task returns success only if the call of the persistence function
\* committed the course's rows, and a task whose persistence call ended
\* without a commit returns error
CounterexampleC28_SuccessMeansPersisted ==
    \A k \in Finished :
        /\ futures[k].result.status = "success"
               => futures[k].result.committed
        /\ (futures[k].result.saved /\ ~futures[k].result.committed)
               => futures[k].result.status = "error"

=============================================================================
